---- MODULE Spec2Model ----
(***************************************************************************)
(* A model of the HKBusData engine of src/src/busdata.js: the dataset      *)
(* loader (load), the index builder inside it, and the four query          *)
(* operations findStopsNear, findNearestStop, getRoutesByStop and          *)
(* getStopsByRoute.                                                        *)
(*                                                                         *)
(* Encoding of JavaScript values                                           *)
(*   - a value that may be null/undefined is an option: None = <<>> for    *)
(*     null, Some(v) = <<v>> for a value;                                  *)
(*   - a JSON object used as a table (stopList, routeList, route.stops) is *)
(*     the sequence of its entries <<key, value>> in Object.entries order; *)
(*   - the derived indices stopToRoutes / stopToOperators are functions    *)
(*     whose DOMAIN is the set of stop IDs that have an entry;             *)
(*   - coordinates are integers in units of 10^-4 degree and distances are *)
(*     integers in decimetres, so that 1/latDeg = 111000 m per degree is   *)
(*     111 dm per unit and 1/lngDeg = 102000 m per degree is 102 dm per    *)
(*     unit; a radius given in metres is converted by ToDm.                *)
(***************************************************************************)
EXTENDS Integers, Sequences, FiniteSets, TLC

VARIABLES
    data,             \* this.data: None, or Some(dataset)
    stopsArray,       \* this.stopsArray: sequence of flattened stop records
    stopToRoutes,     \* this.stopToRoutes: stop ID -> sequence of route IDs
    stopToOperators,  \* this.stopToOperators: stop ID -> set of company codes
    pc,               \* position of the load() call in flight ("idle" if none)
    idb,              \* the IndexedDB entry under CACHE_KEY: None or Some(dataset)
    isBrowser,        \* the module constant isBrowser of this run
    pendingWrite,     \* setBusCache calls not yet settled: None or Some(payload)
    loadResult,       \* outcome of the last settled load(): "none", "null" or "data"
    loadLog,          \* what the load() in flight, or the last one, did: LoadLog
    lastQuery,        \* the last query call: its arguments and its outcome
    caller,           \* busroute.js, search: each caller's position in its run
    markers,          \* the bus-stop markers created: <<stop ID, attached to the map>>
    markerCache,      \* busroute.js markerCache: stop ID -> index in markers
    visibleBusMarkers \* busroute.js visibleBusMarkers: set of stop IDs

vars == <<data, stopsArray, stopToRoutes, stopToOperators, pc, idb, isBrowser,
          pendingWrite, loadResult, loadLog, lastQuery, caller, markers,
          markerCache, visibleBusMarkers>>

engine == <<data, stopsArray, stopToRoutes, stopToOperators>>

\* the state of the map page around the engine
app == <<caller, markers, markerCache, visibleBusMarkers>>

(***************************************************************************)
(* Options, and small helpers on sequences.                                *)
(***************************************************************************)
None == <<>>

Some(v) == <<v>>

IsSome(o) == Len(o) = 1

Val(o) == o[1]

Min2(a, b) == IF a <= b THEN a ELSE b

Abs(x) == IF x < 0 THEN -x ELSE x

Range(s) == {s[i] : i \in DOMAIN s}

\* Slice0 rounding the end up to one element when there is one
Slice0AtLeastOne(s, n) ==
    SubSeq(s, 1, Min2(IF n < 1 THEN 1 ELSE n, Len(s)))

\* Array.prototype.slice(0, n) for n >= 0
Slice0(s, n) == SubSeq(s, 1, Min2(n, Len(s)))

\* Array.prototype.includes
Includes(s, x) == \E i \in DOMAIN s : s[i] = x

(***************************************************************************)
(* Bounds of the model.                                                    *)
(***************************************************************************)
MaxStops == 3       \* stops in a stop table

MaxCount == 2       \* maxResult and minResult range over 0..MaxCount

MaxMarkers == 4     \* bus-stop markers created on the map page

StopNames == <<"A", "B", "C", "D", "E", "F">>

Companies == {"kmb", "ctb", "nlb"}

\* const onlyBuses = ['kmb', 'ctb']
onlyBuses == <<"kmb", "ctb">>

(***************************************************************************)
(* The planar distance model of findStopsNear / findNearestStop.           *)
(***************************************************************************)
\* 1 / latDeg, in decimetres per coordinate unit
DmPerLatUnit == 111

\* 1 / lngDeg, in decimetres per coordinate unit
DmPerLngUnit == 102

\* a length given in metres, in decimetres
ToDm(metres) == metres * 10

\* dLat = (stop.location.lat - lat) / latDeg
DLat(loc, lat) == (loc.lat - lat) * DmPerLatUnit

\* DLng dividing by latDeg
DLngByLatDeg(loc, lng) == (loc.lng - lng) * DmPerLatUnit

\* dLng = (stop.location.lng - lng) / lngDeg
DLng(loc, lng) == (loc.lng - lng) * DmPerLngUnit

\* distSq = dLat * dLat + dLng * dLng
DistSq(loc, lat, lng) ==
    DLat(loc, lat) * DLat(loc, lat) + DLng(loc, lng) * DLng(loc, lng)

\* OutsideLatBox with a box of half the size
OutsideLatBoxHalf(loc, lat, boxRadius) ==
    Abs(loc.lat - lat) * DmPerLatUnit * 2 > ToDm(boxRadius)

\* Math.abs(stop.location.lat - lat) > latDiff, with latDiff = boxRadius * latDeg
OutsideLatBox(loc, lat, boxRadius) ==
    Abs(loc.lat - lat) * DmPerLatUnit > ToDm(boxRadius)

\* Math.abs(stop.location.lng - lng) > lngDiff, with lngDiff = boxRadius * lngDeg
OutsideLngBox(loc, lng, boxRadius) ==
    Abs(loc.lng - lng) * DmPerLngUnit > ToDm(boxRadius)

\* radiusMeters * radiusMeters, in square decimetres
RadiusSq(radius) == ToDm(radius) * ToDm(radius)

(***************************************************************************)
(* The operators argument of a query: omitted (undefined, so the default   *)
(* parameter value applies), null, or a list of company codes.             *)
(***************************************************************************)
OpsOmitted == [kind |-> "omitted", list |-> <<>>]

OpsNull == [kind |-> "null", list |-> <<>>]

OpsList(l) == [kind |-> "list", list |-> l]

\* operators = onlyBuses: the default replaces an omitted argument only
ResolveOperators(ops) == IF ops.kind = "omitted" THEN OpsList(onlyBuses) ELSE ops

\* operators && operators.length > 0
FilterActive(ops) == ops.kind = "list" /\ Len(ops.list) > 0

\* PassesOperatorFilter keeping the stops the index has no entry for
PassesOperatorFilterLenient(s2o, stopId, ops) ==
    IF FilterActive(ops)
    THEN \/ stopId \notin DOMAIN s2o
         \/ \E i \in DOMAIN ops.list : ops.list[i] \in s2o[stopId]
    ELSE TRUE

\* PassesOperatorFilter keeping every stop the index has an entry for
PassesOperatorFilterAnyEntry(s2o, stopId, ops) ==
    IF FilterActive(ops) THEN stopId \in DOMAIN s2o ELSE TRUE

\* The operator filter of the two spatial scans: TRUE when the stop is kept.
PassesOperatorFilter(s2o, stopId, ops) ==
    IF FilterActive(ops)
    THEN /\ stopId \in DOMAIN s2o
         /\ \E i \in DOMAIN ops.list : ops.list[i] \in s2o[stopId]
    ELSE TRUE

(***************************************************************************)
(* findStopsNear                                                           *)
(***************************************************************************)
\* ScanCandidates leaving the loop at the first stop without location
RECURSIVE ScanCandidatesBreaking(_, _, _, _, _, _, _)
ScanCandidatesBreaking(arr, s2o, i, lat, lng, maxRadius, ops) ==
    IF i > Len(arr) THEN <<>>
    ELSE LET stop == arr[i]
             rest == ScanCandidatesBreaking(arr, s2o, i + 1, lat, lng, maxRadius, ops)
         IN IF ~IsSome(stop.location) THEN <<>>
            ELSE IF ~PassesOperatorFilter(s2o, stop.id, ops) THEN rest
            ELSE IF OutsideLatBox(Val(stop.location), lat, maxRadius) THEN rest
            ELSE IF OutsideLngBox(Val(stop.location), lng, maxRadius) THEN rest
            ELSE IF DistSq(Val(stop.location), lat, lng) <= RadiusSq(maxRadius)
                 THEN <<[stop |-> stop,
                         distSq |-> DistSq(Val(stop.location), lat, lng)]>> \o rest
                 ELSE rest

\* The scan of stopsArray: the candidates {stop, distSq} in array order.
RECURSIVE ScanCandidates(_, _, _, _, _, _, _)
ScanCandidates(arr, s2o, i, lat, lng, maxRadius, ops) ==
    IF i > Len(arr) THEN <<>>
    ELSE LET stop == arr[i]
             rest == ScanCandidates(arr, s2o, i + 1, lat, lng, maxRadius, ops)
         IN IF ~IsSome(stop.location) THEN rest
            ELSE IF ~PassesOperatorFilter(s2o, stop.id, ops) THEN rest
            ELSE IF OutsideLatBox(Val(stop.location), lat, maxRadius) THEN rest
            ELSE IF OutsideLngBox(Val(stop.location), lng, maxRadius) THEN rest
            ELSE IF DistSq(Val(stop.location), lat, lng) <= RadiusSq(maxRadius)
                 THEN <<[stop |-> stop,
                         distSq |-> DistSq(Val(stop.location), lat, lng)]>> \o rest
                 ELSE rest

\* InsertByDist putting c before the elements at the same distance
RECURSIVE InsertByDistBeforeTies(_, _)
InsertByDistBeforeTies(s, c) ==
    IF s = <<>> THEN <<c>>
    ELSE IF s[Len(s)].distSq - c.distSq < 0
         THEN Append(s, c)
         ELSE Append(InsertByDistBeforeTies(SubSeq(s, 1, Len(s) - 1), c), s[Len(s)])

\* Insert c into the sorted sequence s after every element that is not greater.
RECURSIVE InsertByDist(_, _)
InsertByDist(s, c) ==
    IF s = <<>> THEN <<c>>
    ELSE IF s[Len(s)].distSq - c.distSq <= 0
         THEN Append(s, c)
         ELSE Append(InsertByDist(SubSeq(s, 1, Len(s) - 1), c), s[Len(s)])

\* SortByDist without the sort: the candidates stay in array order
SortByDistUnsorted(s) == s

\* candidates.sort((a, b) => a.distSq - b.distSq): a stable sort
RECURSIVE SortByDist(_)
SortByDist(s) ==
    IF s = <<>> THEN <<>>
    ELSE InsertByDist(SortByDist(SubSeq(s, 1, Len(s) - 1)), s[Len(s)])

\* candidates.findIndex((c) => c.distSq > limit), then -1 replaced by the length
EndIndex(cands, limit) ==
    IF \E i \in DOMAIN cands : cands[i].distSq > limit
    THEN (CHOOSE i \in DOMAIN cands :
              /\ cands[i].distSq > limit
              /\ \A j \in 1..(i - 1) : ~(cands[j].distSq > limit)) - 1
    ELSE Len(cands)

\* .map((item) => item.stop)
StopsOf(cands) == [i \in DOMAIN cands |-> cands[i].stop]

\* SelectByExpansion with slice(0, n - 1) in its first branch
SelectByExpansionShort(cands, radius, maxResult, minResult) ==
    LET end1 == EndIndex(cands, RadiusSq(radius))
        end2 == EndIndex(cands, RadiusSq(radius * 2))
    IN IF end1 >= minResult THEN Slice0(cands, Min2(end1, maxResult) - 1)
       ELSE IF end2 >= minResult THEN Slice0(cands, Min2(end2, maxResult))
       ELSE Slice0(cands, maxResult)

\* SelectByExpansion without the 2 * radius step
SelectByExpansionNoDoubling(cands, radius, maxResult, minResult) ==
    LET end1 == EndIndex(cands, RadiusSq(radius))
    IN IF end1 >= minResult THEN Slice0(cands, Min2(end1, maxResult))
       ELSE Slice0(cands, maxResult)

\* The adaptive expansion over the sorted candidates.
SelectByExpansion(cands, radius, maxResult, minResult) ==
    LET r1Sq == RadiusSq(radius)
        r2Sq == RadiusSq(radius * 2)
        end1 == EndIndex(cands, r1Sq)
        end2 == EndIndex(cands, r2Sq)
    IN IF end1 >= minResult THEN Slice0(cands, Min2(end1, maxResult))
       ELSE IF end2 >= minResult THEN Slice0(cands, Min2(end2, maxResult))
       ELSE Slice0(cands, maxResult)

\* FindStopsNear with maxRadius = radiusMeters * 2
FindStopsNearHalfBox(d, arr, s2o, lat, lng, radius, maxResult, minResult, opsArg) ==
    IF ~IsSome(d) \/ Len(arr) = 0 THEN <<>>
    ELSE LET ops == ResolveOperators(opsArg)
             cands == SortByDist(
                          ScanCandidates(arr, s2o, 1, lat, lng, radius * 2, ops))
         IN StopsOf(SelectByExpansion(cands, radius, maxResult, minResult))

\* findStopsNear(lat, lng, radiusMeters, maxResult, minResult, operators) on the
\* engine state (d, arr, s2o)
FindStopsNear(d, arr, s2o, lat, lng, radius, maxResult, minResult, opsArg) ==
    IF ~IsSome(d) \/ Len(arr) = 0 THEN <<>>
    ELSE LET ops == ResolveOperators(opsArg)
             cands == SortByDist(
                          ScanCandidates(arr, s2o, 1, lat, lng, radius * 4, ops))
         IN StopsOf(SelectByExpansion(cands, radius, maxResult, minResult))

(***************************************************************************)
(* findNearestStop                                                         *)
(***************************************************************************)
\* The radius argument of findNearestStop is an option: None is Infinity (the
\* default), Some(r) a finite radius in metres.

\* NearestStep replacing the nearest stop by a stop at the same distance
NearestStepKeepingLast(acc, stop, s2o, lat, lng, rad, ops) ==
    IF ~IsSome(stop.location) THEN acc
    ELSE IF IsSome(rad) /\ OutsideLatBox(Val(stop.location), lat, Val(rad)) THEN acc
    ELSE IF IsSome(rad) /\ OutsideLngBox(Val(stop.location), lng, Val(rad)) THEN acc
    ELSE IF ~PassesOperatorFilter(s2o, stop.id, ops) THEN acc
    ELSE LET distSq == DistSq(Val(stop.location), lat, lng)
         IN IF ~IsSome(acc.minDistSq) \/ distSq <= Val(acc.minDistSq)
            THEN [nearest |-> Some(stop), minDistSq |-> Some(distSq)]
            ELSE acc

\* One iteration of the scan; acc = [nearest, minDistSq], minDistSq = None is Infinity.
NearestStep(acc, stop, s2o, lat, lng, rad, ops) ==
    IF ~IsSome(stop.location) THEN acc
    ELSE IF IsSome(rad) /\ OutsideLatBox(Val(stop.location), lat, Val(rad)) THEN acc
    ELSE IF IsSome(rad) /\ OutsideLngBox(Val(stop.location), lng, Val(rad)) THEN acc
    ELSE IF ~PassesOperatorFilter(s2o, stop.id, ops) THEN acc
    ELSE LET distSq == DistSq(Val(stop.location), lat, lng)
         IN IF ~IsSome(acc.minDistSq) \/ distSq < Val(acc.minDistSq)
            THEN [nearest |-> Some(stop), minDistSq |-> Some(distSq)]
            ELSE acc

RECURSIVE NearestScan(_, _, _, _, _, _, _, _)
NearestScan(acc, arr, i, s2o, lat, lng, rad, ops) ==
    IF i > Len(arr) THEN acc
    ELSE NearestScan(NearestStep(acc, arr[i], s2o, lat, lng, rad, ops),
                     arr, i + 1, s2o, lat, lng, rad, ops)

\* findNearestStop(lat, lng, radiusMeters, operators): None is null
FindNearestStop(d, arr, s2o, lat, lng, rad, opsArg) ==
    IF ~IsSome(d) \/ Len(arr) = 0 THEN None
    ELSE LET init == [nearest |-> None,
                      minDistSq |-> IF IsSome(rad) THEN Some(RadiusSq(Val(rad)))
                                    ELSE None]
         IN NearestScan(init, arr, 1, s2o, lat, lng, rad,
                        ResolveOperators(opsArg)).nearest

(***************************************************************************)
(* Tables: a JSON object as the sequence of its <<key, value>> entries.    *)
(***************************************************************************)
Keys(tbl) == {tbl[i][1] : i \in DOMAIN tbl}

\* tbl[key]: None when the key is absent (undefined)
Lookup(tbl, key) ==
    IF key \in Keys(tbl)
    THEN Some((CHOOSE i \in DOMAIN tbl : tbl[i][1] = key))
    ELSE None

Entry(tbl, key) == tbl[Val(Lookup(tbl, key))][2]

\* ([id, stop]) => ({ id, ...stop })
MergeId(id, stop) == [id |-> id, location |-> stop.location, name |-> stop.name]

\* { id }: the placeholder of a stop ID that resolves to nothing
OnlyId(id) == [id |-> id, location |-> None, name |-> None]

\* Object.entries(this.data.stopList).map(([id, stop]) => ({ id, ...stop }))
FlattenStops(stopList) ==
    [i \in DOMAIN stopList |-> MergeId(stopList[i][1], stopList[i][2])]

(***************************************************************************)
(* getRoutesByStop and getStopsByRoute.  A call returns                    *)
(* [threw |-> BOOLEAN, value |-> ...]; threw is an uncaught TypeError.     *)
(***************************************************************************)
Returned(v) == [threw |-> FALSE, value |-> v]

Thrown == [threw |-> TRUE, value |-> <<>>]

\* { id, ...this.data.routeList[id] }: a route record is its stops field
MergeRoute(routeList, id) ==
    IF IsSome(Lookup(routeList, id)) /\ IsSome(Entry(routeList, id))
    THEN [id |-> id, stops |-> Val(Entry(routeList, id)).stops]
    ELSE [id |-> id, stops |-> None]

\* CompanyListsStop without the includes(stopId) test
CompanyServesRoute(route, op, stopId) ==
    /\ IsSome(route.stops)
    /\ IsSome(Lookup(Val(route.stops), op))
    /\ IsSome(Entry(Val(route.stops), op))

\* route.stops && (route.stops[op] ? route.stops[op].includes(stopId) : false)
CompanyListsStop(route, op, stopId) ==
    /\ IsSome(route.stops)
    /\ IsSome(Lookup(Val(route.stops), op))
    /\ IsSome(Entry(Val(route.stops), op))
    /\ Includes(Val(Entry(Val(route.stops), op)), stopId)

\* the callback of .filter in getRoutesByStop
RouteMatches(route, stopId, ops) ==
    IF ~FilterActive(ops) THEN TRUE
    ELSE \E i \in DOMAIN ops.list : CompanyListsStop(route, ops.list[i], stopId)

RECURSIVE FilterRoutes(_, _, _)
FilterRoutes(routes, stopId, ops) ==
    IF routes = <<>> THEN <<>>
    ELSE IF RouteMatches(Head(routes), stopId, ops)
         THEN <<Head(routes)>> \o FilterRoutes(Tail(routes), stopId, ops)
         ELSE FilterRoutes(Tail(routes), stopId, ops)

\* getRoutesByStop(stopId, operators)
GetRoutesByStop(d, s2r, stopId, opsArg) ==
    \* !this.stopToRoutes is false for every object; this.data.routeList is read next
    IF ~IsSome(d) THEN Thrown
    ELSE IF ~IsSome(Val(d).routeList) THEN Returned(<<>>)
    ELSE IF stopId \notin DOMAIN s2r THEN Returned(<<>>)
    ELSE LET routeList == Val(Val(d).routeList)
             routes == [i \in DOMAIN s2r[stopId] |->
                            MergeRoute(routeList, s2r[stopId][i])]
         IN Returned(FilterRoutes(routes, stopId, ResolveOperators(opsArg)))

\* ResolveStop giving the bare { id } for every stop ID
ResolveStopBare(stopList, id) == OnlyId(id)

\* (id) => { const stop = this.data.stopList[id]; return stop ? { id, ...stop } : { id } }
ResolveStop(stopList, id) ==
    IF IsSome(Lookup(stopList, id)) THEN MergeId(id, Entry(stopList, id))
    ELSE OnlyId(id)

\* the loop of getStopsByRoute over Object.entries(route.stops), from entry j on
RECURSIVE StopsByCompany(_, _, _, _)
StopsByCompany(pairs, j, stopListOpt, ops) ==
    IF j > Len(pairs) THEN Returned(<<>>)
    ELSE LET company == pairs[j][1]
             stopIds == pairs[j][2]
             rest == StopsByCompany(pairs, j + 1, stopListOpt, ops)
         IN IF FilterActive(ops) /\ ~Includes(ops.list, company) THEN rest
            \* stopIds.map on null, or this.data.stopList[id] on undefined
            ELSE IF ~IsSome(stopIds) THEN Thrown
            ELSE IF Len(Val(stopIds)) > 0 /\ ~IsSome(stopListOpt) THEN Thrown
            ELSE IF rest.threw THEN Thrown
            ELSE Returned(
                   <<<<company,
                       [k \in DOMAIN Val(stopIds) |->
                            ResolveStop(Val(stopListOpt), Val(stopIds)[k])]>>>>
                   \o rest.value)

\* getStopsByRoute(routeId, operators): the object as its entries <<company, stops>>
GetStopsByRoute(d, routeId, opsArg) ==
    IF ~IsSome(d) \/ ~IsSome(Val(d).routeList) THEN Returned(<<>>)
    ELSE LET route == Lookup(Val(Val(d).routeList), routeId)
         IN IF ~IsSome(route) THEN Returned(<<>>)
            ELSE IF ~IsSome(Entry(Val(Val(d).routeList), routeId)) THEN Returned(<<>>)
            ELSE IF ~IsSome(Val(Entry(Val(Val(d).routeList), routeId)).stops)
                 THEN Returned(<<>>)
            ELSE StopsByCompany(
                     Val(Val(Entry(Val(Val(d).routeList), routeId)).stops), 1,
                     Val(d).stopList, ResolveOperators(opsArg))

(***************************************************************************)
(* The index builder inside load().  acc = [s2r, s2o, seen, threw]; threw  *)
(* is a TypeError raised by the loop, which leaves the indices as built so *)
(* far.                                                                    *)
(***************************************************************************)
\* if (!this.stopToOperators[stopId]) ... = new Set(); ....add(company)
AddOperator(s2o, stopId, company) ==
    IF stopId \in DOMAIN s2o
    THEN [s2o EXCEPT ![stopId] = @ \cup {company}]
    ELSE s2o @@ (stopId :> {company})

\* AddRoute assigning a fresh list instead of pushing onto the list there is
AddRouteReplacing(s2r, stopId, routeId) ==
    IF stopId \in DOMAIN s2r
    THEN [s2r EXCEPT ![stopId] = <<routeId>>]
    ELSE s2r @@ (stopId :> <<routeId>>)

\* if (!this.stopToRoutes[stopId]) ... = []; ....push(routeId)
AddRoute(s2r, stopId, routeId) ==
    IF stopId \in DOMAIN s2r
    THEN [s2r EXCEPT ![stopId] = Append(@, routeId)]
    ELSE s2r @@ (stopId :> <<routeId>>)

\* IndexStop without the seenStops test: the route ID is pushed at every occurrence
IndexStopNoSeen(acc, routeId, company, stopId) ==
    [acc EXCEPT !.s2o = AddOperator(@, stopId, company),
                !.s2r = AddRoute(@, stopId, routeId)]

\* IndexStop recording the company after the seenStops test only
IndexStopOperatorAfterSeen(acc, routeId, company, stopId) ==
    IF stopId \in acc.seen
    THEN acc
    ELSE [acc EXCEPT !.s2o = AddOperator(@, stopId, company),
                     !.seen = @ \cup {stopId},
                     !.s2r = AddRoute(@, stopId, routeId)]

\* the body of: for (const stopId of companyStops)
IndexStop(acc, routeId, company, stopId) ==
    LET s2o == AddOperator(acc.s2o, stopId, company)
    IN IF stopId \in acc.seen
       THEN [acc EXCEPT !.s2o = s2o]
       ELSE [acc EXCEPT !.s2o = s2o,
                        !.seen = @ \cup {stopId},
                        !.s2r = AddRoute(@, stopId, routeId)]

RECURSIVE IndexStops(_, _, _, _, _)
IndexStops(acc, routeId, company, companyStops, k) ==
    IF k > Len(companyStops) THEN acc
    ELSE IndexStops(IndexStop(acc, routeId, company, companyStops[k]),
                    routeId, company, companyStops, k + 1)

\* for (const [company, companyStops] of Object.entries(route.stops))
RECURSIVE IndexCompanies(_, _, _, _)
IndexCompanies(acc, routeId, pairs, j) ==
    IF acc.threw \/ j > Len(pairs) THEN acc
    ELSE IF ~IsSome(pairs[j][2]) THEN [acc EXCEPT !.threw = TRUE]
    ELSE IndexCompanies(
             IndexStops(acc, routeId, pairs[j][1], Val(pairs[j][2]), 1),
             routeId, pairs, j + 1)

\* IndexRoutes failing on a route without stops instead of skipping it
RECURSIVE IndexRoutesFailingWithoutStops(_, _, _)
IndexRoutesFailingWithoutStops(acc, routeList, i) ==
    IF acc.threw \/ i > Len(routeList) THEN acc
    ELSE LET routeId == routeList[i][1]
             route == routeList[i][2]
         IN IF ~IsSome(route) \/ ~IsSome(Val(route).stops)
            THEN [acc EXCEPT !.threw = TRUE]
            ELSE IndexRoutesFailingWithoutStops(
                     IndexCompanies([acc EXCEPT !.seen = {}], routeId,
                                    Val(Val(route).stops), 1),
                     routeList, i + 1)

\* for (const [routeId, route] of Object.entries(this.data.routeList))
RECURSIVE IndexRoutes(_, _, _)
IndexRoutes(acc, routeList, i) ==
    IF acc.threw \/ i > Len(routeList) THEN acc
    ELSE LET routeId == routeList[i][1]
             route == routeList[i][2]
         IN IF ~IsSome(route) THEN [acc EXCEPT !.threw = TRUE]
            ELSE IF ~IsSome(Val(route).stops) THEN IndexRoutes(acc, routeList, i + 1)
            ELSE IndexRoutes(
                     IndexCompanies([acc EXCEPT !.seen = {}], routeId,
                                    Val(Val(route).stops), 1),
                     routeList, i + 1)

\* this.stopToRoutes = {}; this.stopToOperators = {}; if (this.data.routeList) {...}
BuildIndex(routeListOpt) ==
    LET empty == [s2r |-> <<>>, s2o |-> <<>>, seen |-> {}, threw |-> FALSE]
    IN IF IsSome(routeListOpt) THEN IndexRoutes(empty, Val(routeListOpt), 1)
       ELSE empty

(***************************************************************************)
(* The synchronous tail of load(), from the assignment of this.data to the *)
(* return: the engine state it leaves and whether it returned this.data.   *)
(***************************************************************************)
\* if (this.data.stopList) { this.stopsArray = ... }
InstallStops(stopListOpt, oldArray) ==
    IF IsSome(stopListOpt) THEN FlattenStops(Val(stopListOpt)) ELSE oldArray

\* Install without the reset of the two indices before the index loop
InstallKeepingIndex(payload, oldArray, oldS2r, oldS2o) ==
    IF ~IsSome(payload)
    THEN [data |-> payload, stopsArray |-> oldArray, stopToRoutes |-> oldS2r,
          stopToOperators |-> oldS2o, ok |-> FALSE]
    ELSE LET start == [s2r |-> oldS2r, s2o |-> oldS2o, seen |-> {}, threw |-> FALSE]
             built == IF IsSome(Val(payload).routeList)
                      THEN IndexRoutes(start, Val(Val(payload).routeList), 1)
                      ELSE start
         IN [data |-> payload,
             stopsArray |-> InstallStops(Val(payload).stopList, oldArray),
             stopToRoutes |-> built.s2r,
             stopToOperators |-> built.s2o,
             ok |-> ~built.threw]

Install(payload, oldArray, oldS2r, oldS2o) ==
    IF ~IsSome(payload)
    THEN \* this.data is null: this.data.stopList throws
         [data |-> payload, stopsArray |-> oldArray, stopToRoutes |-> oldS2r,
          stopToOperators |-> oldS2o, ok |-> FALSE]
    ELSE LET built == BuildIndex(Val(payload).routeList)
         IN [data |-> payload,
             stopsArray |-> InstallStops(Val(payload).stopList, oldArray),
             stopToRoutes |-> built.s2r,
             stopToOperators |-> built.s2o,
             ok |-> ~built.threw]

(***************************************************************************)
(* Datasets.  A stop record is [location, name]; a route record is its     *)
(* stops field, a table company -> option of a stop-ID sequence.           *)
(***************************************************************************)
StopAt(lat, lng) ==
    [location |-> Some([lat |-> lat, lng |-> lng]), name |-> Some("stop")]

StopNoLoc == [location |-> None, name |-> Some("stop")]

Route(pairs) == Some([stops |-> Some(pairs)])

RouteNoStops == Some([stops |-> None])

Dataset(stopListOpt, routeListOpt) ==
    Some([stopList |-> stopListOpt, routeList |-> routeListOpt])

\* The payloads a fetch, a file read or the cache may deliver to load(): JSON null,
\* and datasets with or without a stop table and a route table; the route tables
\* include a route without stops, a dangling stop ID ("X"), a stop listed twice and
\* by two companies, and a route whose company entry is null.
LoadStopTables ==
    { None,
      Some(<< <<"A", StopAt(0, 1)>>, <<"B", StopAt(1, 0)>> >>),
      Some(<< <<"C", StopAt(0, 1)>>, <<"A", StopNoLoc>> >>) }

LoadRouteTables ==
    { None,
      Some(<< <<"r1", Route(<< <<"kmb", Some(<<"A", "B">>)>>,
                               <<"ctb", Some(<<"B", "A">>)>> >>)>>,
              <<"r2", Route(<< <<"nlb", Some(<<"B">>)>> >>)>> >>),
      Some(<< <<"r2", RouteNoStops>>,
              <<"r3", Route(<< <<"ctb", Some(<<"C", "X", "C">>)>> >>)>> >>),
      Some(<< <<"r1", Route(<< <<"kmb", Some(<<"A">>)>> >>)>>,
              <<"r4", Route(<< <<"ctb", None>> >>)>> >>) }

LoadPayloads ==
    {None} \cup {Dataset(s, r) : s \in LoadStopTables, r \in LoadRouteTables}

(***************************************************************************)
(* Query calls: each records its arguments and its outcome in lastQuery,   *)
(* until the caller is done with the result (QueryReturns).  The queries   *)
(* are synchronous, so one call is recorded at a time.                     *)
(***************************************************************************)
NoQuery == [op |-> "none"]

QueryReturns ==
    /\ lastQuery # NoQuery
    /\ UNCHANGED app
    /\ lastQuery' = NoQuery
    /\ UNCHANGED <<engine, pc, idb, isBrowser, pendingWrite, loadResult, loadLog>>

\* CallFindStopsNear sorting this.stopsArray itself by distance, stops without
\* location first
CallFindStopsNearSortingArray(lat, lng, radius, maxResult, minResult, ops) ==
    LET keyed == [i \in DOMAIN stopsArray |->
                     [stop |-> stopsArray[i],
                      distSq |-> IF IsSome(stopsArray[i].location)
                                 THEN DistSq(Val(stopsArray[i].location), lat, lng)
                                 ELSE 0]]
    IN /\ lastQuery = NoQuery
       /\ UNCHANGED app
       /\ lastQuery' =
              [op |-> "findStopsNear", lat |-> lat, lng |-> lng, radius |-> radius,
               maxResult |-> maxResult, minResult |-> minResult, operators |-> ops,
               loaded |-> IsSome(data), threw |-> FALSE,
               result |-> FindStopsNear(data, stopsArray, stopToOperators, lat, lng,
                                        radius, maxResult, minResult, ops)]
       /\ stopsArray' = StopsOf(SortByDist(keyed))
       /\ UNCHANGED <<data, stopToRoutes, stopToOperators, pc, idb, isBrowser,
                      pendingWrite, loadResult, loadLog>>

CallFindStopsNear(lat, lng, radius, maxResult, minResult, ops) ==
    /\ lastQuery = NoQuery
    /\ UNCHANGED app
    /\ lastQuery' =
           [op |-> "findStopsNear", lat |-> lat, lng |-> lng, radius |-> radius,
            maxResult |-> maxResult, minResult |-> minResult, operators |-> ops,
            loaded |-> IsSome(data), threw |-> FALSE,
            result |-> FindStopsNear(data, stopsArray, stopToOperators, lat, lng,
                                     radius, maxResult, minResult, ops)]
    /\ UNCHANGED <<engine, pc, idb, isBrowser, pendingWrite, loadResult, loadLog>>

CallFindNearestStop(lat, lng, rad, ops) ==
    /\ lastQuery = NoQuery
    /\ UNCHANGED app
    /\ lastQuery' =
           [op |-> "findNearestStop", lat |-> lat, lng |-> lng, radius |-> rad,
            operators |-> ops, loaded |-> IsSome(data), threw |-> FALSE,
            result |-> FindNearestStop(data, stopsArray, stopToOperators, lat, lng,
                                       rad, ops)]
    /\ UNCHANGED <<engine, pc, idb, isBrowser, pendingWrite, loadResult, loadLog>>

CallGetRoutesByStop(stopId, ops) ==
    LET r == GetRoutesByStop(data, stopToRoutes, stopId, ops)
    IN /\ lastQuery = NoQuery
       /\ UNCHANGED app
       /\ lastQuery' =
              [op |-> "getRoutesByStop", stopId |-> stopId, operators |-> ops,
               loaded |-> IsSome(data), threw |-> r.threw, result |-> r.value]
       /\ UNCHANGED <<engine, pc, idb, isBrowser, pendingWrite, loadResult, loadLog>>

CallGetStopsByRoute(routeId, ops) ==
    LET r == GetStopsByRoute(data, routeId, ops)
    IN /\ lastQuery = NoQuery
       /\ UNCHANGED app
       /\ lastQuery' =
              [op |-> "getStopsByRoute", routeId |-> routeId, operators |-> ops,
               loaded |-> IsSome(data), threw |-> r.threw, result |-> r.value]
       /\ UNCHANGED <<engine, pc, idb, isBrowser, pendingWrite, loadResult, loadLog>>

(***************************************************************************)
(* load(): one action per await that settles; the action that resumes the  *)
(* last await runs the synchronous tail to the return.                     *)
(***************************************************************************)
\* What a call of load() did: the outcome of the cache read ("unread" before it
\* settles), the calls of fetchJSON, the file reads and the calls of set() it made,
\* and whether the payload it installed is the dataset that was installed already.
LoadLog(cache, fetches, reads, writes, reload) ==
    [cache |-> cache, fetches |-> fetches, reads |-> reads, writes |-> writes,
     reload |-> reload]

NoLoad == LoadLog("unread", 0, 0, 0, FALSE)

\* load() returns: the engine state left by the tail, and the outcome
Settle(inst) ==
    /\ data' = inst.data
    /\ stopsArray' = inst.stopsArray
    /\ stopToRoutes' = inst.stopToRoutes
    /\ stopToOperators' = inst.stopToOperators
    /\ pc' = "idle"
    /\ loadResult' = IF inst.ok THEN "data" ELSE "null"

\* return null from the catch block or from the !response.ok branch
ReturnNull ==
    /\ pc' = "idle"
    /\ loadResult' = "null"
    /\ UNCHANGED <<engine, idb, isBrowser, pendingWrite, lastQuery>>

\* load() is called and suspends at: await getBusCache().  Runs in which the
\* previous cache write is still pending when load() is called again are left out.
LoadCall ==
    /\ pc = "idle"
    /\ UNCHANGED app
    /\ pendingWrite = None
    /\ pc' = "getCache"
    /\ loadResult' = "none"
    /\ loadLog' = NoLoad
    /\ UNCHANGED <<engine, idb, isBrowser, pendingWrite, lastQuery>>

\* GetBusCacheSettles going on to fetchJSON although the cache gave a copy
GetBusCacheSettlesRefetching ==
    /\ pc = "getCache"
    /\ UNCHANGED app
    /\ \E cached \in (IF isBrowser THEN {idb, None} ELSE {None}) :
          /\ pc' = IF isBrowser THEN "fetchJSON" ELSE "importFs"
          /\ loadLog' = LoadLog(IF IsSome(cached) THEN "hit" ELSE "miss",
                                IF isBrowser THEN 1 ELSE 0, 0, 0, FALSE)
          /\ UNCHANGED <<engine, idb, isBrowser, pendingWrite, loadResult, lastQuery>>

\* getBusCache() settles: null outside a browser or on a read error, else the entry
GetBusCacheSettles ==
    /\ pc = "getCache"
    /\ UNCHANGED app
    /\ \E cached \in (IF isBrowser THEN {idb, None} ELSE {None}) :
          IF IsSome(cached)
          THEN /\ Settle(Install(cached, stopsArray, stopToRoutes, stopToOperators))
               /\ loadLog' = LoadLog("hit", 0, 0, 0, cached = data)
               /\ UNCHANGED <<idb, isBrowser, pendingWrite, lastQuery>>
          ELSE /\ pc' = IF isBrowser THEN "fetchJSON" ELSE "importFs"
               /\ loadLog' = LoadLog("miss", IF isBrowser THEN 1 ELSE 0, 0, 0, FALSE)
               /\ UNCHANGED <<engine, idb, isBrowser, pendingWrite, loadResult,
                              lastQuery>>

\* FetchJSONSettles with the error of fetchJSON rejecting the promise of load()
FetchJSONSettlesRejecting ==
    /\ pc = "fetchJSON"
    /\ UNCHANGED app
    /\ UNCHANGED loadLog
    /\ \/ /\ pc' = "idle"
          /\ loadResult' \in {"null", "rejected"}
          /\ UNCHANGED <<engine, idb, isBrowser, pendingWrite, lastQuery>>
       \/ /\ pc' = "json"
          /\ UNCHANGED <<engine, idb, isBrowser, pendingWrite, loadResult, lastQuery>>

\* await fetchJSON(dataset) settles: it throws, or the response is not ok, or ok
FetchJSONSettles ==
    /\ pc = "fetchJSON"
    /\ UNCHANGED app
    /\ UNCHANGED loadLog
    /\ \/ ReturnNull
       \/ /\ pc' = "json"
          /\ UNCHANGED <<engine, idb, isBrowser, pendingWrite, loadResult, lastQuery>>

\* await response.json() settles: a parse error, or the payload; then
\* setBusCache(this.data) is started and the tail runs
ResponseJsonSettles ==
    /\ pc = "json"
    /\ UNCHANGED app
    /\ \/ ReturnNull /\ UNCHANGED loadLog
       \/ \E payload \in LoadPayloads :
             /\ Settle(Install(payload, stopsArray, stopToRoutes, stopToOperators))
             /\ pendingWrite' = Some(payload)
             /\ loadLog' = [loadLog EXCEPT !.writes = @ + 1, !.reload = (payload = data)]
             /\ UNCHANGED <<idb, isBrowser, lastQuery>>

\* await import('fs') settles
ImportFsSettles ==
    /\ pc = "importFs"
    /\ UNCHANGED app
    /\ UNCHANGED loadLog
    /\ \/ ReturnNull
       \/ /\ pc' = "importPath"
          /\ UNCHANGED <<engine, idb, isBrowser, pendingWrite, loadResult, lastQuery>>

\* await import('path') settles and fails; or readFileSync or JSON.parse throws; or
\* the payload is installed (setBusCache returns at once outside a browser)
ImportPathSettles ==
    /\ pc = "importPath"
    /\ UNCHANGED app
    /\ \/ ReturnNull /\ UNCHANGED loadLog
       \/ ReturnNull /\ loadLog' = [loadLog EXCEPT !.reads = @ + 1]
       \/ \E payload \in LoadPayloads :
             /\ Settle(Install(payload, stopsArray, stopToRoutes, stopToOperators))
             /\ loadLog' = [loadLog EXCEPT !.reads = @ + 1, !.reload = (payload = data)]
             /\ UNCHANGED <<idb, isBrowser, pendingWrite, lastQuery>>

\* SetBusCacheSettles with a failed set() turning the load into a failed load
SetBusCacheSettlesFailingLoad ==
    /\ IsSome(pendingWrite)
    /\ UNCHANGED app
    /\ \/ idb' = Val(pendingWrite) /\ UNCHANGED loadResult
       \/ idb' = idb /\ loadResult' = "null"
    /\ pendingWrite' = None
    /\ UNCHANGED <<engine, pc, isBrowser, loadLog, lastQuery>>

\* the set() of setBusCache settles: the entry is written, or the error is logged
SetBusCacheSettles ==
    /\ IsSome(pendingWrite)
    /\ UNCHANGED app
    /\ \/ idb' = Val(pendingWrite)
       \/ idb' = idb
    /\ pendingWrite' = None
    /\ UNCHANGED <<engine, pc, isBrowser, loadResult, loadLog, lastQuery>>

(***************************************************************************)
(* The map page before any search: no caller is running and no bus-stop    *)
(* marker exists.                                                          *)
(***************************************************************************)
\* the callers of hkbusData.load(): searchBusStop run by the debounce timer of the
\* idle listener and by the click on the bus button, and searchLandmarks
Callers == {"timer", "button", "landmark"}

IdleCaller == [at |-> "idle", center |-> <<>>, stops |-> <<>>]

NoPage ==
    /\ caller = [c \in Callers |-> IdleCaller]
    /\ markers = <<>>
    /\ markerCache = <<>>
    /\ visibleBusMarkers = {}

(***************************************************************************)
(* The engine from construction on: loads and queries in any interleaving. *)
(***************************************************************************)
LoadPoints == {[lat |-> 0, lng |-> 0]}

LoadRadii == {6, 12}

LoadOps == {OpsOmitted, OpsList(<<"nlb">>)}

Init ==
    /\ data = None
    /\ stopsArray = <<>>
    /\ stopToRoutes = <<>>
    /\ stopToOperators = <<>>
    /\ pc = "idle"
    /\ isBrowser \in BOOLEAN
    /\ idb \in (IF isBrowser THEN LoadPayloads ELSE {None})
    /\ pendingWrite = None
    /\ loadResult = "none"
    /\ loadLog = NoLoad
    /\ lastQuery = NoQuery
    /\ NoPage

FindStopsNearCall ==
    \E p \in LoadPoints, radius \in LoadRadii, maxResult \in {1, 10},
       ops \in LoadOps :
        CallFindStopsNear(p.lat, p.lng, radius, maxResult, 2, ops)

FindNearestStopCall ==
    \E p \in LoadPoints, rad \in {None, Some(12)}, ops \in LoadOps :
        CallFindNearestStop(p.lat, p.lng, rad, ops)

GetRoutesByStopCall ==
    \E stopId \in {"A", "X"}, ops \in LoadOps : CallGetRoutesByStop(stopId, ops)

GetStopsByRouteCall ==
    \E routeId \in {"r1", "r3"}, ops \in LoadOps : CallGetStopsByRoute(routeId, ops)

Next ==
    \/ LoadCall
    \/ GetBusCacheSettles
    \/ FetchJSONSettles
    \/ ResponseJsonSettles
    \/ ImportFsSettles
    \/ ImportPathSettles
    \/ SetBusCacheSettles
    \/ FindStopsNearCall
    \/ FindNearestStopCall
    \/ GetRoutesByStopCall
    \/ GetStopsByRouteCall
    \/ QueryReturns

Spec == Init /\ [][Next]_vars

(***************************************************************************)
(* The queries as functions of a loaded dataset: the initial states are    *)
(* the engine after one successful load() of a dataset drawn from a        *)
(* bounded family, and the steps are query calls.                          *)
(***************************************************************************)
QueryLocs ==
    { [lat |-> 0, lng |-> 1], [lat |-> 1, lng |-> 0], [lat |-> -1, lng |-> -1] }

QueryStops == {StopNoLoc} \cup {StopAt(l.lat, l.lng) : l \in QueryLocs}

\* the stop tables of 0..MaxStops stops, named in table order
QueryStopTables ==
    UNION { { [i \in 1..n |-> <<StopNames[i], f[i]>>] : f \in [1..n -> QueryStops] }
            : n \in 0..MaxStops }

QueryRouteTables ==
    { None,
      Some(<< <<"r1", Route(<< <<"kmb", Some(<<"A", "B">>)>>,
                               <<"ctb", Some(<<"B">>)>> >>)>>,
              <<"r2", Route(<< <<"nlb", Some(<<"C", "B">>)>> >>)>> >>),
      Some(<< <<"r1", Route(<< <<"ctb", Some(<<"A", "C">>)>> >>)>>,
              <<"r2", Route(<< <<"kmb", Some(<<"C", "D", "C">>)>> >>)>> >>) }

QueryDatasets ==
    {Dataset(Some(s), r) : s \in QueryStopTables, r \in QueryRouteTables}

QueryRadii == {3, 6, 11, 12}

QueryOps ==
    { OpsOmitted, OpsNull, OpsList(<<>>), OpsList(<<"nlb", "ctb">>) }

QueryInit ==
    /\ \E d \in QueryDatasets :
          LET inst == Install(d, <<>>, <<>>, <<>>)
          IN /\ data = inst.data
             /\ stopsArray = inst.stopsArray
             /\ stopToRoutes = inst.stopToRoutes
             /\ stopToOperators = inst.stopToOperators
    /\ pc = "idle"
    /\ isBrowser = TRUE
    /\ idb = None
    /\ pendingWrite = None
    /\ loadResult = "data"
    /\ loadLog = NoLoad
    /\ lastQuery = NoQuery
    /\ NoPage

QueryFindStopsNear ==
    \E radius \in QueryRadii, maxResult \in 0..MaxCount, minResult \in 0..MaxCount,
       ops \in QueryOps :
        CallFindStopsNear(0, 0, radius, maxResult, minResult, ops)

\* the point and radius of a findNearestStop call: from the query point of
\* findStopsNear with the default radius (Infinity) or a radius of QueryRadii, and
\* from the position of a stop with radius 0
QueryNearestArgs ==
    {[lat |-> 0, lng |-> 0, radius |-> rad] :
        rad \in {None} \cup {Some(r) : r \in QueryRadii}}
    \cup {[lat |-> 0, lng |-> 1, radius |-> Some(0)]}

QueryFindNearestStop ==
    \E a \in QueryNearestArgs, ops \in QueryOps :
        CallFindNearestStop(a.lat, a.lng, a.radius, ops)

QueryGetRoutesByStop ==
    \E stopId \in {StopNames[i] : i \in 1..MaxStops} \cup {"X"}, ops \in QueryOps :
        CallGetRoutesByStop(stopId, ops)

QueryGetStopsByRoute ==
    \E routeId \in {"r1", "r2", "r9"}, ops \in QueryOps :
        CallGetStopsByRoute(routeId, ops)

QueryNext ==
    \/ QueryFindStopsNear
    \/ QueryFindNearestStop
    \/ QueryGetRoutesByStop
    \/ QueryGetStopsByRoute
    \/ QueryReturns

QuerySpec == QueryInit /\ [][QueryNext]_vars

(***************************************************************************)
(* The map page of busroute.js around the engine: the runs of              *)
(* searchBusStop and searchLandmarks, which call load() when no dataset is *)
(* installed, and the bus-stop markers.  A run is one step per await that  *)
(* settles.  A load() call is its call and its settling here; no route is  *)
(* selected (routeState.activeId is null).                                 *)
(***************************************************************************)
\* the callers that run searchBusStop
SearchCallers == {"timer", "button"}

\* getBusStopSearchRadius(zoom) at zoom 15 and 16
nearStops_m == 200

\* nearest_m at zoom <= 16
nearest_m == 40

\* the dataset the page loads
AppDataset ==
    Dataset(Some(<< <<"A", StopAt(0, 1)>>, <<"B", StopAt(1, 0)>>,
                    <<"C", StopAt(100, 1)>> >>),
            Some(<< <<"r1", Route(<< <<"kmb", Some(<<"A", "B", "C">>)>> >>)>> >>))

\* the map centre at the call: None when it is outside Hong Kong or the zoom is
\* below streetZoom
Centers ==
    { [lat |-> 0, lng |-> 0], [lat |-> 5, lng |-> 0], [lat |-> 100, lng |-> 0] }

Views == {None} \cup {Some(ctr) : ctr \in Centers}

\* hkbusData.findStopsNear(center.lat, center.lng, nearStops_m) on an engine state
StopsNearCenter(d, arr, s2o, center) ==
    FindStopsNear(d, arr, s2o, center.lat, center.lng, nearStops_m, 10, 2, OpsOmitted)

\* the loop hiding the markers that are no longer visible: marker.map = null
HideStale(ms, cache, visible, newIds) ==
    [i \in DOMAIN ms |->
        IF \E id \in visible \ newIds : id \in DOMAIN cache /\ cache[id] = i
        THEN [ms[i] EXCEPT !.onMap = FALSE]
        ELSE ms[i]]

\* the body of the loop showing new or existing markers; st = [markers, cache,
\* visible].  Every stop findStopsNear returns has a location.
ShowStop(st, stop) ==
    IF stop.id \in st.visible THEN st
    ELSE IF stop.id \in DOMAIN st.cache
         THEN [st EXCEPT !.markers[st.cache[stop.id]].onMap = TRUE,
                         !.visible = @ \cup {stop.id}]
         ELSE [markers |-> Append(st.markers, [stop |-> stop.id, onMap |-> TRUE]),
               cache |-> st.cache @@ (stop.id :> Len(st.markers) + 1),
               visible |-> st.visible \cup {stop.id}]

RECURSIVE ShowStops(_, _, _)
ShowStops(st, stops, k) ==
    IF k > Len(stops) THEN st
    ELSE ShowStops(ShowStop(st, stops[k]), stops, k + 1)

\* step 4 of searchBusStop
UpdateMarkers(ms, cache, visible, stops) ==
    LET newIds == {stops[k].id : k \in DOMAIN stops}
    IN ShowStops([markers |-> HideStale(ms, cache, visible, newIds),
                  cache |-> cache,
                  visible |-> visible \cap newIds],
                 stops, 1)

\* clearRouteState(): markerCache.clear(); visibleBusMarkers.clear()
ClearRouteState ==
    /\ markerCache' = <<>>
    /\ visibleBusMarkers' = {}
    /\ UNCHANGED markers

\* searchBusStop() is called and runs to its first await, or returns
SearchBusStopCalled(c) ==
    /\ caller[c].at = "idle"
    /\ \E view \in Views :
          IF ~IsSome(view)
          THEN ClearRouteState /\ UNCHANGED caller
          ELSE /\ UNCHANGED <<markers, markerCache, visibleBusMarkers>>
               /\ caller' =
                     [caller EXCEPT ![c] =
                        IF ~IsSome(data)
                        THEN [at |-> "load", center |-> Val(view), stops |-> <<>>]
                        ELSE [at |-> "import", center |-> Val(view),
                              stops |-> StopsNearCenter(data, stopsArray,
                                                        stopToOperators, Val(view))]]
    /\ UNCHANGED <<engine, pc, idb, isBrowser, pendingWrite, loadResult, loadLog,
                   lastQuery>>

\* searchLandmarks() reaches: if (!hkbusData.data) await hkbusData.load()
SearchLandmarksLoads ==
    /\ caller["landmark"].at = "idle"
    /\ ~IsSome(data)
    /\ caller' = [caller EXCEPT !["landmark"] = [IdleCaller EXCEPT !.at = "load"]]
    /\ UNCHANGED <<engine, pc, idb, isBrowser, pendingWrite, loadResult, loadLog,
                   lastQuery, markers, markerCache, visibleBusMarkers>>

\* the load() a caller awaits settles, with the dataset installed or with null;
\* searchBusStop goes on to findStopsNear if a dataset is installed by now
LoadSettlesFor(c) ==
    /\ caller[c].at = "load"
    /\ \E ok \in BOOLEAN :
          LET inst == IF ok
                      THEN Install(AppDataset, stopsArray, stopToRoutes,
                                   stopToOperators)
                      ELSE [data |-> data, stopsArray |-> stopsArray,
                            stopToRoutes |-> stopToRoutes,
                            stopToOperators |-> stopToOperators, ok |-> FALSE]
          IN /\ data' = inst.data
             /\ stopsArray' = inst.stopsArray
             /\ stopToRoutes' = inst.stopToRoutes
             /\ stopToOperators' = inst.stopToOperators
             /\ caller' =
                   [caller EXCEPT ![c] =
                      IF c \notin SearchCallers \/ ~IsSome(inst.data)
                      THEN IdleCaller
                      ELSE [at |-> "import", center |-> caller[c].center,
                            stops |-> StopsNearCenter(inst.data, inst.stopsArray,
                                                      inst.stopToOperators,
                                                      caller[c].center)]]
    /\ UNCHANGED <<pc, idb, isBrowser, pendingWrite, loadResult, loadLog, lastQuery,
                   markers, markerCache, visibleBusMarkers>>

\* await google.maps.importLibrary('marker') settles: steps 4 and 5 of searchBusStop
ImportLibrarySettles(c) ==
    /\ caller[c].at = "import"
    /\ LET shown == UpdateMarkers(markers, markerCache, visibleBusMarkers,
                                  caller[c].stops)
           nearest == FindNearestStop(data, stopsArray, stopToOperators,
                                      caller[c].center.lat, caller[c].center.lng,
                                      Some(nearest_m), OpsOmitted)
       IN /\ Len(shown.markers) <= MaxMarkers
          /\ markers' = shown.markers
          /\ IF IsSome(nearest)
             THEN markerCache' = shown.cache /\ visibleBusMarkers' = shown.visible
             ELSE markerCache' = <<>> /\ visibleBusMarkers' = {}
    /\ caller' = [caller EXCEPT ![c] = IdleCaller]
    /\ UNCHANGED <<engine, pc, idb, isBrowser, pendingWrite, loadResult, loadLog,
                   lastQuery>>

\* clearRouteState() called by a listener: Escape, focus of the search box, ...
ClearRouteStateCalled ==
    /\ markerCache # <<>> \/ visibleBusMarkers # {}
    /\ ClearRouteState
    /\ UNCHANGED <<engine, pc, idb, isBrowser, pendingWrite, loadResult, loadLog,
                   lastQuery, caller>>

AppInit ==
    /\ data = None
    /\ stopsArray = <<>>
    /\ stopToRoutes = <<>>
    /\ stopToOperators = <<>>
    /\ pc = "idle"
    /\ isBrowser = TRUE
    /\ idb = None
    /\ pendingWrite = None
    /\ loadResult = "none"
    /\ loadLog = NoLoad
    /\ lastQuery = NoQuery
    /\ NoPage

SearchBusStopRuns == \E c \in SearchCallers : SearchBusStopCalled(c)

LoadSettles == \E c \in Callers : LoadSettlesFor(c)

MarkersUpdated == \E c \in SearchCallers : ImportLibrarySettles(c)

AppNext ==
    \/ SearchBusStopRuns
    \/ SearchLandmarksLoads
    \/ LoadSettles
    \/ MarkersUpdated
    \/ ClearRouteStateCalled

AppSpec == AppInit /\ [][AppNext]_vars

(***************************************************************************)
(* testFindStopsNear of test_runner.js: the engine with the mock stop      *)
(* array and operator index injected, and calls of findStopsNear from the  *)
(* centre (22.3, 114.1), the origin of the coordinates here.               *)
(***************************************************************************)
mockStopsArray ==
    << [id |-> "A", location |-> Some([lat |-> 1, lng |-> 0]), name |-> Some("stop")],
       [id |-> "B", location |-> Some([lat |-> 0, lng |-> 5]), name |-> Some("stop")],
       [id |-> "C", location |-> Some([lat |-> -10, lng |-> 0]), name |-> Some("stop")],
       [id |-> "D", location |-> Some([lat |-> 0, lng |-> 20]), name |-> Some("stop")],
       [id |-> "E", location |-> Some([lat |-> 0, lng |-> -1]), name |-> Some("stop")] >>

mockStopToOperators ==
    [id \in {"A", "B", "C", "D", "E"} |->
        CASE id = "A" -> {"kmb"}
          [] id = "B" -> {"ctb"}
          [] id = "C" -> {"kmb"}
          [] id = "D" -> {"kmb", "nlb"}
          [] id = "E" -> {"ctb", "kmb"}]

\* the radii of the test cases, and of the test case that is commented out
TestRadii == {5, 10, 40, 60, 120, 300}

TestOps == {OpsOmitted, OpsList(<<"kmb">>), OpsList(<<"nlb">>)}

\* the engine after: hkbusData.data = { stopList: {}, routeList: {} }
TestInit ==
    /\ data = Dataset(Some(<<>>), Some(<<>>))
    /\ stopsArray = mockStopsArray
    /\ stopToRoutes = <<>>
    /\ stopToOperators = mockStopToOperators
    /\ pc = "idle"
    /\ isBrowser = TRUE
    /\ idb = None
    /\ pendingWrite = None
    /\ loadResult = "none"
    /\ loadLog = NoLoad
    /\ lastQuery = NoQuery
    /\ NoPage

TestFindStopsNear ==
    \E radius \in TestRadii, maxResult \in {2, 10}, minResult \in 1..3,
       ops \in TestOps :
        CallFindStopsNear(0, 0, radius, maxResult, minResult, ops)

TestNext ==
    \/ TestFindStopsNear
    \/ QueryReturns

TestSpec == TestInit /\ [][TestNext]_vars

(***************************************************************************)
(* Vocabulary of the properties, stated on the engine state and on the     *)
(* recorded call without the operators of the queries.                     *)
(***************************************************************************)
IsFindStopsNear == lastQuery.op = "findStopsNear"

IsFindNearestStop == lastQuery.op = "findNearestStop"

\* squared planar distance (square decimetres) of a positioned stop from (lat, lng)
PlanarSq(stop, lat, lng) ==
    LET dy == (Val(stop.location).lat - lat) * 111
        dx == (Val(stop.location).lng - lng) * 102
    IN dy * dy + dx * dx

\* a stop lies within the given number of metres of (lat, lng)
Within(stop, lat, lng, metres) ==
    PlanarSq(stop, lat, lng) <= (metres * 10) * (metres * 10)

\* the company codes a call filters by: those of the list given, or of the
\* default list when the argument is omitted; none for null
FilterSet(opsArg) ==
    IF opsArg.kind = "omitted" THEN {"kmb", "ctb"} ELSE Range(opsArg.list)

\* the stop passes the operator filter of a call that filters by the set ops
PassesFilterSet(stop, ops) ==
    ops # {} => /\ stop.id \in DOMAIN stopToOperators
                /\ stopToOperators[stop.id] \cap ops # {}

\* eligible: the stop has a position and passes the operator filter
Eligible(stop, opsArg) ==
    IsSome(stop.location) /\ PassesFilterSet(stop, FilterSet(opsArg))

\* the number of eligible stops within the given distance of the query point
CountWithin(lat, lng, metres, opsArg) ==
    Cardinality({i \in DOMAIN stopsArray :
                    /\ Eligible(stopsArray[i], opsArg)
                    /\ Within(stopsArray[i], lat, lng, metres)})

ResultIds == {lastQuery.result[i].id : i \in DOMAIN lastQuery.result}

\* the length the three-step expansion prescribes
ExpectedCount(lat, lng, radius, maxResult, minResult, opsArg) ==
    LET c1 == CountWithin(lat, lng, radius, opsArg)
        c2 == CountWithin(lat, lng, 2 * radius, opsArg)
        c4 == CountWithin(lat, lng, 4 * radius, opsArg)
    IN IF c1 >= minResult THEN Min2(c1, maxResult)
       ELSE IF c2 >= minResult THEN Min2(c2, maxResult)
       ELSE Min2(c4, maxResult)

(***************************************************************************)
(* C1: the stops returned by findStopsNear are in non-decreasing order of  *)
(* planar distance from the query point.                                   *)
(***************************************************************************)
C1_SortedByDistance ==
    IsFindStopsNear =>
        \A i, j \in DOMAIN lastQuery.result :
            i < j => PlanarSq(lastQuery.result[i], lastQuery.lat, lastQuery.lng)
                       <= PlanarSq(lastQuery.result[j], lastQuery.lat, lastQuery.lng)

\* a call whose result puts a later stop of the array before an earlier, farther one
C1_Witness ==
    /\ IsFindStopsNear
    /\ Len(lastQuery.result) >= 2
    /\ lastQuery.result[1].id = "B"
    /\ lastQuery.result[2].id = "A"
    /\ PlanarSq(lastQuery.result[1], lastQuery.lat, lastQuery.lng)
         < PlanarSq(lastQuery.result[2], lastQuery.lat, lastQuery.lng)

(***************************************************************************)
(* C2: findStopsNear is monotonic in the radius: a larger radius, the      *)
(* other arguments fixed, never returns fewer stops than a smaller one.    *)
(***************************************************************************)
LargerRadii == {r \in QueryRadii : r > lastQuery.radius}

CountAtRadius(r) ==
    Len(FindStopsNear(data, stopsArray, stopToOperators, lastQuery.lat,
                      lastQuery.lng, r, lastQuery.maxResult, lastQuery.minResult,
                      lastQuery.operators))

\* the claim as stated
C2_MonotonicInRadius ==
    IsFindStopsNear =>
        \A r \in LargerRadii : CountAtRadius(r) >= Len(lastQuery.result)

\* C2 as amended: a larger radius returns at least min(maxResults, number of eligible
\* stops within the smaller radius); hence at least as many stops as the smaller
\* radius returned whenever the search at the smaller radius did not expand.
C2_MonotonicWithoutExpansion ==
    IsFindStopsNear =>
        LET c1 == CountWithin(lastQuery.lat, lastQuery.lng, lastQuery.radius,
                              lastQuery.operators)
        IN \A r \in LargerRadii :
              LET n == CountAtRadius(r)
              IN /\ n >= Min2(c1, lastQuery.maxResult)
                 /\ c1 >= lastQuery.minResult => n >= Len(lastQuery.result)

\* a call that did not expand, returned stops, and has a larger radius returning more
C2_Witness ==
    /\ IsFindStopsNear
    /\ Len(lastQuery.result) >= 1
    /\ CountWithin(lastQuery.lat, lastQuery.lng, lastQuery.radius,
                   lastQuery.operators) >= lastQuery.minResult
    /\ \E r \in LargerRadii : CountAtRadius(r) > Len(lastQuery.result)

(***************************************************************************)
(* C3: findStopsNear returns the first min(c1, maxResults) stops of the    *)
(* distance-sorted candidates within 4*radius when c1 >= minResults, else  *)
(* the first min(c2, maxResults) when c2 >= minResults, else the first     *)
(* maxResults; c1 and c2 count the candidates within radius and 2*radius.  *)
(***************************************************************************)
C3_AdaptiveExpansion ==
    IsFindStopsNear /\ lastQuery.loaded =>
        LET q == lastQuery
            res == q.result
        IN \* the prescribed number of stops
           /\ Len(res) = ExpectedCount(q.lat, q.lng, q.radius, q.maxResult,
                                       q.minResult, q.operators)
           \* all of them distinct candidates within 4 * radius
           /\ \A i \in DOMAIN res :
                 /\ \E k \in DOMAIN stopsArray : stopsArray[k] = res[i]
                 /\ Eligible(res[i], q.operators)
                 /\ Within(res[i], q.lat, q.lng, 4 * q.radius)
           /\ \A i, j \in DOMAIN res : i # j => res[i].id # res[j].id
           \* a prefix of the distance-sorted candidates
           /\ \A i, j \in DOMAIN res :
                 i < j => PlanarSq(res[i], q.lat, q.lng) <= PlanarSq(res[j], q.lat, q.lng)
           /\ \A k \in DOMAIN stopsArray :
                 ( /\ Eligible(stopsArray[k], q.operators)
                   /\ Within(stopsArray[k], q.lat, q.lng, 4 * q.radius)
                   /\ stopsArray[k].id \notin ResultIds )
                 => \A i \in DOMAIN res :
                       PlanarSq(res[i], q.lat, q.lng)
                         <= PlanarSq(stopsArray[k], q.lat, q.lng)

\* a call that expanded to 2 * radius and returned more than radius alone holds
C3_Witness ==
    /\ IsFindStopsNear
    /\ CountWithin(lastQuery.lat, lastQuery.lng, lastQuery.radius,
                   lastQuery.operators) < lastQuery.minResult
    /\ CountWithin(lastQuery.lat, lastQuery.lng, 2 * lastQuery.radius,
                   lastQuery.operators) >= lastQuery.minResult
    /\ Len(lastQuery.result) >
         CountWithin(lastQuery.lat, lastQuery.lng, lastQuery.radius,
                     lastQuery.operators)
    /\ CountWithin(lastQuery.lat, lastQuery.lng, 4 * lastQuery.radius,
                   lastQuery.operators) > Len(lastQuery.result)

(***************************************************************************)
(* C4: findStopsNear returns fewer than minResults stops only when fewer   *)
(* than minResults eligible stops lie within 4*radius of the query point.  *)
(***************************************************************************)
\* the claim as stated
C4_FewerOnlyWhenScarce ==
    IsFindStopsNear /\ lastQuery.loaded =>
        ( Len(lastQuery.result) < lastQuery.minResult
          => CountWithin(lastQuery.lat, lastQuery.lng, 4 * lastQuery.radius,
                         lastQuery.operators) < lastQuery.minResult )

\* C4 as amended: findStopsNear returns fewer than min(minResults, maxResults)
\* stops only when fewer than minResults eligible stops lie within 4*radius
C4_FewerThanCapOnlyWhenScarce ==
    IsFindStopsNear /\ lastQuery.loaded =>
        ( Len(lastQuery.result) < Min2(lastQuery.minResult, lastQuery.maxResult)
          => CountWithin(lastQuery.lat, lastQuery.lng, 4 * lastQuery.radius,
                         lastQuery.operators) < lastQuery.minResult )

\* a call that fell back to 4 * radius and returned stops, yet fewer than minResults
C4_Witness ==
    /\ IsFindStopsNear
    /\ lastQuery.maxResult >= lastQuery.minResult
    /\ Len(lastQuery.result) >= 1
    /\ Len(lastQuery.result) < lastQuery.minResult
    /\ CountWithin(lastQuery.lat, lastQuery.lng, lastQuery.radius,
                   lastQuery.operators) = 0

(***************************************************************************)
(* C5: with a non-empty operators argument the two spatial queries         *)
(* consider a stop exactly when the stop->operators index has an entry for *)
(* it that shares a company with operators, a stop without an entry never  *)
(* being returned; with operators empty or missing no stop is excluded on  *)
(* operator grounds.                                                       *)
(***************************************************************************)
\* the stops a spatial call returned (a list, or an option)
ReturnedStops == Range(lastQuery.result)

\* The rule for a call that filters by the company set fs (no filter when fs = {}):
\* only stops passing the filter are returned, and no passing stop is left out of
\* consideration: findStopsNear returns at least min(maxResults, passing stops
\* within radius) stops, findNearestStop a stop no farther than any passing stop in
\* reach.
OperatorRule(fs) ==
    LET q == lastQuery
        passing == {i \in DOMAIN stopsArray :
                       /\ IsSome(stopsArray[i].location)
                       /\ PassesFilterSet(stopsArray[i], fs)}
        inReach(i) ==
            IF IsFindStopsNear THEN Within(stopsArray[i], q.lat, q.lng, q.radius)
            ELSE \/ ~IsSome(q.radius)
                 \/ PlanarSq(stopsArray[i], q.lat, q.lng)
                      < (Val(q.radius) * 10) * (Val(q.radius) * 10)
        near == {i \in passing : inReach(i)}
    IN /\ \A stop \in ReturnedStops : PassesFilterSet(stop, fs)
       /\ IsFindStopsNear =>
             Len(q.result) >= Min2(q.maxResult, Cardinality(near))
       /\ IsFindNearestStop =>
             /\ near # {} => IsSome(q.result)
             /\ \A i \in near :
                   IsSome(q.result) /\ PlanarSq(Val(q.result), q.lat, q.lng)
                                         <= PlanarSq(stopsArray[i], q.lat, q.lng)

\* the claim as stated: an argument that is missing (omitted or null) filters nothing
C5_FilterUnlessEmptyOrMissing ==
    (IsFindStopsNear \/ IsFindNearestStop) /\ lastQuery.loaded =>
        OperatorRule(IF lastQuery.operators.kind = "list"
                     THEN Range(lastQuery.operators.list) ELSE {})

\* C5 as amended: the filter is the operators list given, or the default list
\* [kmb, ctb] when the argument is omitted; with an empty list or null no stop is
\* excluded on operator grounds
C5_FilterUnlessEmptyOrNull ==
    (IsFindStopsNear \/ IsFindNearestStop) /\ lastQuery.loaded =>
        OperatorRule(FilterSet(lastQuery.operators))

\* a call with a list given that returned a stop and left out a positioned stop
\* within the radius because the index has no entry for it
C5_Witness ==
    /\ IsFindStopsNear
    /\ lastQuery.operators.kind = "list"
    /\ Len(lastQuery.operators.list) > 0
    /\ Len(lastQuery.result) >= 1
    /\ Len(lastQuery.result) < lastQuery.maxResult
    /\ \E k \in DOMAIN stopsArray :
          /\ IsSome(stopsArray[k].location)
          /\ Within(stopsArray[k], lastQuery.lat, lastQuery.lng, lastQuery.radius)
          /\ stopsArray[k].id \notin DOMAIN stopToOperators
          /\ stopsArray[k].id \notin ResultIds

(***************************************************************************)
(* C6: if the operators list passed to a query does not contain the only   *)
(* company that serves a stop, the stop appears in no result of            *)
(* findStopsNear, findNearestStop or getStopsByRoute for that call.        *)
(***************************************************************************)
\* the route table of the loaded dataset (empty when there is none)
RouteEntries ==
    IF IsSome(data) /\ IsSome(Val(data).routeList) THEN Val(Val(data).routeList)
    ELSE <<>>

\* the route (an option of a route record) lists the stop for the company
Lists(route, company, stopId) ==
    /\ IsSome(route)
    /\ IsSome(Val(route).stops)
    /\ \E j \in DOMAIN Val(Val(route).stops) :
          /\ Val(Val(route).stops)[j][1] = company
          /\ IsSome(Val(Val(route).stops)[j][2])
          /\ stopId \in Range(Val(Val(Val(route).stops)[j][2]))

\* the companies that serve a stop, by the route table
ServedBy(stopId) ==
    {c \in Companies :
        \E i \in DOMAIN RouteEntries : Lists(RouteEntries[i][2], c, stopId)}

AnyStopId == Range(StopNames) \cup {"X"}

\* the IDs of the stops in the result of the recorded call
ReturnedStopIds ==
    IF lastQuery.op = "getStopsByRoute"
    THEN UNION { {lastQuery.result[e][2][k].id : k \in DOMAIN lastQuery.result[e][2]}
                 : e \in DOMAIN lastQuery.result }
    ELSE {stop.id : stop \in ReturnedStops}

IsStopQuery ==
    lastQuery.op \in {"findStopsNear", "findNearestStop", "getStopsByRoute"}

\* exactly one company serves the stop, and the list passed does not contain it
OnlyOperatorExcluded(stopId) ==
    LET served == ServedBy(stopId)
    IN /\ Cardinality(served) = 1
       /\ served \cap Range(lastQuery.operators.list) = {}

\* the claim as stated
C6_ExcludedOnlyOperator ==
    IsStopQuery /\ lastQuery.loaded /\ lastQuery.operators.kind = "list" =>
        \A id \in ReturnedStopIds : ~OnlyOperatorExcluded(id)

\* C6 as amended: the operators list passed is non-empty
C6_ExcludedOnlyOperatorNonEmpty ==
    ( /\ IsStopQuery
      /\ lastQuery.loaded
      /\ lastQuery.operators.kind = "list"
      /\ Len(lastQuery.operators.list) > 0 ) =>
        \A id \in ReturnedStopIds : ~OnlyOperatorExcluded(id)

\* a call with a non-empty list that returned a stop and left out a positioned stop
\* within the radius whose only company is not in the list
C6_Witness ==
    /\ IsFindStopsNear
    /\ lastQuery.operators.kind = "list"
    /\ Len(lastQuery.operators.list) > 0
    /\ Len(lastQuery.result) >= 1
    /\ \E k \in DOMAIN stopsArray :
          /\ IsSome(stopsArray[k].location)
          /\ Within(stopsArray[k], lastQuery.lat, lastQuery.lng, lastQuery.radius)
          /\ OnlyOperatorExcluded(stopsArray[k].id)
          /\ stopsArray[k].id \notin ResultIds

(***************************************************************************)
(* What a dataset determines: the flattened stop array and the two reverse *)
(* indices, stated from the tables without the index builder.              *)
(***************************************************************************)
\* no route of the table is null and no company entry of a route is null
WellFormedRoutes ==
    \A i \in DOMAIN RouteEntries :
        /\ IsSome(RouteEntries[i][2])
        /\ IsSome(Val(RouteEntries[i][2]).stops) =>
              \A j \in DOMAIN Val(Val(RouteEntries[i][2]).stops) :
                  IsSome(Val(Val(RouteEntries[i][2]).stops)[j][2])

\* the stop table of the loaded dataset (empty when there is none)
StopEntries ==
    IF IsSome(data) /\ IsSome(Val(data).stopList) THEN Val(Val(data).stopList)
    ELSE <<>>

\* one record per stop-table entry, in table order
DerivedStopsArray ==
    [i \in DOMAIN StopEntries |->
        [id |-> StopEntries[i][1],
         location |-> StopEntries[i][2].location,
         name |-> StopEntries[i][2].name]]

\* the route visits the stop by some company
Visits(route, stopId) == \E c \in Companies : Lists(route, c, stopId)

VisitedStopIds ==
    {id \in AnyStopId : \E i \in DOMAIN RouteEntries : Visits(RouteEntries[i][2], id)}

\* the IDs of the routes visiting the stop, once each, in route-table order
RoutesVisiting(stopId) ==
    LET visiting == SelectSeq(RouteEntries, LAMBDA e : Visits(e[2], stopId))
    IN [k \in DOMAIN visiting |-> visiting[k][1]]

DerivedStopToRoutes == [id \in VisitedStopIds |-> RoutesVisiting(id)]

DerivedStopToOperators == [id \in VisitedStopIds |-> ServedBy(id)]

(***************************************************************************)
(* C7: with no dataset loaded each of the four queries returns its empty   *)
(* value ([], null, [], {}) and none of them throws.                       *)
(***************************************************************************)
C7_QueryOnEmptyDataset ==
    lastQuery.op # "none" /\ ~lastQuery.loaded =>
        /\ ~lastQuery.threw
        /\ lastQuery.result = <<>>

(***************************************************************************)
(* C8: a load() that fails returns null and leaves the dataset, the        *)
(* flattened stop array and both indices exactly as they were before the   *)
(* call.                                                                   *)
(***************************************************************************)
\* a step in which the load() in flight returns null
LoadReturnsNull == pc # "idle" /\ pc' = "idle" /\ loadResult' = "null"

C8_FailedLoadLeavesEngine == [][LoadReturnsNull => UNCHANGED engine]_vars

(***************************************************************************)
(* C9: at every point where a query can run, during a load and after it    *)
(* settled, the dataset, the flattened stop array and both indices are     *)
(* derived from one and the same dataset.                                  *)
(***************************************************************************)
C9_AtomicReload ==
    /\ WellFormedRoutes
    /\ stopsArray = DerivedStopsArray
    /\ stopToRoutes = DerivedStopToRoutes
    /\ stopToOperators = DerivedStopToOperators

(***************************************************************************)
(* C10: after a successful load the flattened stop array and the two       *)
(* indices hold exactly what the dataset just loaded determines, nothing   *)
(* being carried over from an earlier dataset.                             *)
(***************************************************************************)
C10_RebuiltFromLatestDataset ==
    pc = "idle" /\ loadResult = "data" =>
        /\ stopsArray = DerivedStopsArray
        /\ stopToRoutes = DerivedStopToRoutes
        /\ stopToOperators = DerivedStopToOperators

(***************************************************************************)
(* C11: load is idempotent: a load() that installs the dataset that is     *)
(* installed already leaves the flattened stop array, stop->routes and     *)
(* stop->operators as the load before it left them.                        *)
(***************************************************************************)
\* a step in which the load() in flight runs its tail on the dataset installed already
ReloadsSameDataset == pc # "idle" /\ pc' = "idle" /\ loadLog'.reload

C11_LoadIdempotent ==
    [][ReloadsSameDataset =>
          /\ data' = data
          /\ UNCHANGED <<stopsArray, stopToRoutes, stopToOperators>>]_vars

\* a second load of a dataset has succeeded, on an engine whose index has a
\* stop visited by two routes
C11_Witness ==
    /\ pc = "idle"
    /\ loadResult = "data"
    /\ loadLog.reload
    /\ \E id \in DOMAIN stopToRoutes : Len(stopToRoutes[id]) >= 2

(***************************************************************************)
(* C12: load() consults its sources in priority order: the cache is read   *)
(* first; a copy from the cache is used with no network fetch, no file     *)
(* read and no cache write; only after a cache miss is there one network   *)
(* fetch or file read, and only after it a cache write.                    *)
(***************************************************************************)
C12_SourcesInPriorityOrder ==
    LET fetched == loadLog.fetches + loadLog.reads
    IN \* nothing is fetched, read or written before the cache read settles
       /\ loadLog.cache = "unread" => fetched = 0 /\ loadLog.writes = 0
       /\ pc \notin {"idle", "getCache"} => loadLog.cache = "miss"
       \* a copy from the cache is installed, and nothing else is consulted
       /\ loadLog.cache = "hit" =>
             /\ pc = "idle"
             /\ data = idb
             /\ fetched = 0
             /\ loadLog.writes = 0
       \* after a miss: one fetch or file read, never two
       /\ fetched <= 1
       /\ pc \in {"fetchJSON", "json"} => loadLog.fetches = 1
       /\ pc = "idle" /\ loadLog.cache = "miss" /\ loadResult = "data" => fetched = 1
       \* a cache write only after the fetch, and one only
       /\ loadLog.writes <= fetched

\* a load() that took the copy of the cache and returned it
C12_Witness ==
    /\ pc = "idle"
    /\ loadLog.cache = "hit"
    /\ loadResult = "data"
    /\ IsSome(idb)
    /\ data = idb

(***************************************************************************)
(* C13: the cache write after a fetch is best-effort: load() installs the  *)
(* dataset, builds the indices and returns while the write is still        *)
(* outstanding, with an outcome the payload alone determines, and the      *)
(* write, whether it succeeds or fails, changes neither the engine nor     *)
(* that outcome.                                                           *)
(***************************************************************************)
\* a step in which the outstanding set() of setBusCache settles
CacheWriteSettles == IsSome(pendingWrite) /\ pendingWrite' = None

C13_CacheWriteBestEffort ==
    /\ [](IsSome(pendingWrite) =>
             /\ pc = "idle"
             /\ data = Val(pendingWrite)
             /\ loadResult = IF IsSome(data) /\ WellFormedRoutes THEN "data"
                              ELSE "null")
    /\ [][CacheWriteSettles => UNCHANGED <<engine, pc, loadResult>>]_vars

\* a load() that fetched has returned the dataset, and its cache write has failed
C13_Witness ==
    /\ pc = "idle"
    /\ loadResult = "data"
    /\ loadLog.writes = 1
    /\ pendingWrite = None
    /\ idb # data
    /\ DOMAIN stopToRoutes # {}

(***************************************************************************)
(* C14: after a successful load, a route ID occurs in stopToRoutes[s] if   *)
(* and only if s occurs in a company's stop sequence of that route; it     *)
(* occurs at most once; and the route IDs of stopToRoutes[s] are in the    *)
(* order of the route table.                                               *)
(***************************************************************************)
\* the entry of the stop in stop->routes, empty when it has none
IndexedRoutes(stopId) ==
    IF stopId \in DOMAIN stopToRoutes THEN stopToRoutes[stopId] ELSE <<>>

\* the position of a route ID in the route table
PositionOf(routeId) ==
    CHOOSE i \in DOMAIN RouteEntries : RouteEntries[i][1] = routeId

\* the companies of a route whose sequence lists the stop
ListingCompanies(route, stopId) == {c \in Companies : Lists(route, c, stopId)}

C14_StopToRoutesContent ==
    pc = "idle" /\ loadResult = "data" =>
        /\ DOMAIN stopToRoutes \subseteq AnyStopId
        /\ \A id \in DOMAIN stopToRoutes : stopToRoutes[id] # <<>>
        /\ \A id \in AnyStopId :
              LET idx == IndexedRoutes(id)
              IN /\ \A i \in DOMAIN RouteEntries :
                       RouteEntries[i][1] \in Range(idx)
                         <=> Visits(RouteEntries[i][2], id)
                 /\ \A j \in DOMAIN idx :
                       \E i \in DOMAIN RouteEntries : RouteEntries[i][1] = idx[j]
                 /\ \A j, k \in DOMAIN idx :
                       j < k => /\ idx[j] # idx[k]
                                /\ PositionOf(idx[j]) < PositionOf(idx[k])

\* a loaded dataset with a stop that two routes visit, one of them by two companies
C14_Witness ==
    /\ pc = "idle"
    /\ loadResult = "data"
    /\ \E id \in DOMAIN stopToRoutes :
          /\ Len(stopToRoutes[id]) >= 2
          /\ \E i \in DOMAIN RouteEntries :
                Cardinality(ListingCompanies(RouteEntries[i][2], id)) >= 2

(***************************************************************************)
(* C15: after a successful load, a company is in stopToOperators[s] if and *)
(* only if some route of the route table lists s in its sequence for that  *)
(* company, also when the route ID is suppressed as a duplicate in         *)
(* stop->routes.                                                           *)
(***************************************************************************)
C15_StopToOperatorsContent ==
    pc = "idle" /\ loadResult = "data" =>
        /\ DOMAIN stopToOperators \subseteq AnyStopId
        /\ \A id \in DOMAIN stopToOperators :
              stopToOperators[id] # {} /\ stopToOperators[id] \subseteq Companies
        /\ \A id \in AnyStopId, c \in Companies :
              (id \in DOMAIN stopToOperators /\ c \in stopToOperators[id])
                <=> c \in ServedBy(id)

\* a loaded dataset with a stop that one route lists for two companies and that a
\* third company serves by another route
C15_Witness ==
    /\ pc = "idle"
    /\ loadResult = "data"
    /\ \E id \in DOMAIN stopToOperators :
          /\ stopToOperators[id] = Companies
          /\ \E i \in DOMAIN RouteEntries :
                /\ Cardinality(ListingCompanies(RouteEntries[i][2], id)) = 2
                /\ Len(SelectSeq(stopToRoutes[id],
                                  LAMBDA r : r = RouteEntries[i][1])) = 1

(***************************************************************************)
(* C16: getRoutesByStop(stopId, operators) returns, in index order and     *)
(* each merged with its route ID, exactly the routes of                    *)
(* stopToRoutes[stopId] for which a company of operators lists stopId in   *)
(* the route's own sequence for that company; every indexed route when     *)
(* operators is empty; the empty list for an unknown stop ID.              *)
(***************************************************************************)
IsGetRoutesByStop == lastQuery.op = "getRoutesByStop"

\* the route record of the route table under the ID, as an option
RouteById(routeId) ==
    IF \E i \in DOMAIN RouteEntries : RouteEntries[i][1] = routeId
    THEN RouteEntries[PositionOf(routeId)][2]
    ELSE None

\* the indexed routes of the stop that a company of fs lists the stop for (all of
\* them when fs is empty), in index order
ExpectedRouteIds(stopId, fs) ==
    SelectSeq(IndexedRoutes(stopId),
              LAMBDA r : fs = {} \/ \E c \in fs : Lists(RouteById(r), c, stopId))

C16_RoutesByStopContract ==
    IsGetRoutesByStop /\ lastQuery.loaded =>
        LET expected == ExpectedRouteIds(lastQuery.stopId,
                                         FilterSet(lastQuery.operators))
        IN /\ ~lastQuery.threw
           /\ Len(lastQuery.result) = Len(expected)
           /\ \A k \in DOMAIN expected :
                 /\ lastQuery.result[k].id = expected[k]
                 /\ lastQuery.result[k].stops = Val(RouteById(expected[k])).stops

\* a call with a non-empty list that returned a route and discarded another one of
\* the index entry
C16_Witness ==
    /\ IsGetRoutesByStop
    /\ lastQuery.operators.kind = "list"
    /\ Len(lastQuery.operators.list) > 0
    /\ Len(lastQuery.result) >= 1
    /\ Len(lastQuery.result) < Len(IndexedRoutes(lastQuery.stopId))

(***************************************************************************)
(* C17: getStopsByRoute(routeId, operators) returns one entry per company  *)
(* that is in the route's per-company stop map and in operators (every     *)
(* company when operators is empty); an entry has the length and the       *)
(* stop-ID order of the route's sequence for the company, repeated IDs     *)
(* included; a stop ID missing from the stop table appears at its position *)
(* as a placeholder carrying only the ID; an unknown route yields the      *)
(* empty mapping.                                                          *)
(***************************************************************************)
IsGetStopsByRoute == lastQuery.op = "getStopsByRoute"

\* the per-company sequences of the route that the filter set fs keeps, in the
\* order of the route's stop map
ExpectedSequences(routeId, fs) ==
    LET route == RouteById(routeId)
    IN IF IsSome(route) /\ IsSome(Val(route).stops)
       THEN SelectSeq(Val(Val(route).stops), LAMBDA e : fs = {} \/ e[1] \in fs)
       ELSE <<>>

InStopTable(stopId) == \E i \in DOMAIN StopEntries : StopEntries[i][1] = stopId

StopById(stopId) ==
    StopEntries[CHOOSE i \in DOMAIN StopEntries : StopEntries[i][1] = stopId][2]

\* the record is the placeholder of the ID: it carries nothing else
IsPlaceholder(stop, stopId) ==
    stop.id = stopId /\ ~IsSome(stop.location) /\ ~IsSome(stop.name)

\* the record is the stop of the stop table under the ID, or else its placeholder
ResolvesTo(stop, stopId) ==
    IF InStopTable(stopId)
    THEN /\ stop.id = stopId
         /\ stop.location = StopById(stopId).location
         /\ stop.name = StopById(stopId).name
    ELSE IsPlaceholder(stop, stopId)

C17_StopsByRouteContract ==
    IsGetStopsByRoute /\ lastQuery.loaded =>
        LET expected == ExpectedSequences(lastQuery.routeId,
                                          FilterSet(lastQuery.operators))
        IN /\ ~lastQuery.threw
           /\ Len(lastQuery.result) = Len(expected)
           /\ \A e \in DOMAIN expected :
                 LET stops == lastQuery.result[e][2]
                     stopIds == Val(expected[e][2])
                 IN /\ lastQuery.result[e][1] = expected[e][1]
                    /\ Len(stops) = Len(stopIds)
                    /\ \A k \in DOMAIN stopIds : ResolvesTo(stops[k], stopIds[k])

\* a call with a non-empty list that left out a company of the route and returned
\* an entry holding the placeholder of a stop ID missing from the stop table
C17_Witness ==
    /\ IsGetStopsByRoute
    /\ lastQuery.operators.kind = "list"
    /\ Len(lastQuery.operators.list) > 0
    /\ Len(lastQuery.result) >= 1
    /\ Len(lastQuery.result) < Len(ExpectedSequences(lastQuery.routeId, {}))
    /\ \E e \in DOMAIN lastQuery.result :
          \E k \in DOMAIN lastQuery.result[e][2] :
              /\ ~InStopTable(lastQuery.result[e][2][k].id)
              /\ IsPlaceholder(lastQuery.result[e][2][k], lastQuery.result[e][2][k].id)

(***************************************************************************)
(* C18: round trip between the two relational queries: for every stop of   *)
(* every entry of getStopsByRoute(r), getRoutesByStop of the stop's ID,    *)
(* called with the same operators argument, returns a route whose ID is r. *)
(***************************************************************************)
C18_RoundTrip ==
    IsGetStopsByRoute /\ lastQuery.loaded /\ ~lastQuery.threw =>
        \A id \in ReturnedStopIds :
            LET routes == GetRoutesByStop(data, stopToRoutes, id, lastQuery.operators)
            IN /\ ~routes.threw
               /\ \E k \in DOMAIN routes.value :
                     routes.value[k].id = lastQuery.routeId

\* a call with the default operators that returned a stop two routes visit, one of
\* them being filtered out of the reverse query
C18_Witness ==
    /\ IsGetStopsByRoute
    /\ lastQuery.operators.kind = "omitted"
    /\ \E id \in ReturnedStopIds :
          /\ Len(IndexedRoutes(id)) >= 2
          /\ Len(GetRoutesByStop(data, stopToRoutes, id, lastQuery.operators).value)
                < Len(IndexedRoutes(id))

(***************************************************************************)
(* C19: findNearestStop returns a stop of minimum planar distance among    *)
(* the eligible stops (having a position, passing the operator filter and  *)
(* at a distance <= radius, as findStopsNear counts it), and none if and   *)
(* only if there is no eligible stop; with the default infinite radius     *)
(* every positioned stop passing the filter is eligible.                   *)
(***************************************************************************)
\* the indices of the eligible stops of the recorded findNearestStop call
EligibleForNearest ==
    {i \in DOMAIN stopsArray :
        /\ Eligible(stopsArray[i], lastQuery.operators)
        /\ \/ ~IsSome(lastQuery.radius)
           \/ Within(stopsArray[i], lastQuery.lat, lastQuery.lng,
                     Val(lastQuery.radius))}

C19_NearestAmongEligible ==
    IsFindNearestStop /\ lastQuery.loaded =>
        /\ ~IsSome(lastQuery.result) <=> EligibleForNearest = {}
        /\ IsSome(lastQuery.result) =>
              /\ \E i \in EligibleForNearest : stopsArray[i] = Val(lastQuery.result)
              /\ \A j \in EligibleForNearest :
                    PlanarSq(Val(lastQuery.result), lastQuery.lat, lastQuery.lng)
                      <= PlanarSq(stopsArray[j], lastQuery.lat, lastQuery.lng)

(***************************************************************************)
(* C20: tie-breaking follows the flattened-array order: two stops at equal *)
(* distance appear in a findStopsNear result in the same relative order as *)
(* in the flattened stop array, which is the entry order of the stop       *)
(* table.                                                                  *)
(***************************************************************************)
\* the position of a stop record in the flattened stop array
ArrayIndex(stop) == CHOOSE k \in DOMAIN stopsArray : stopsArray[k] = stop

C20_TiesInArrayOrder ==
    IsFindStopsNear /\ lastQuery.loaded =>
        /\ stopsArray = DerivedStopsArray
        /\ \A i, j \in DOMAIN lastQuery.result :
              ( /\ i < j
                /\ PlanarSq(lastQuery.result[i], lastQuery.lat, lastQuery.lng)
                     = PlanarSq(lastQuery.result[j], lastQuery.lat, lastQuery.lng) )
              => ArrayIndex(lastQuery.result[i]) < ArrayIndex(lastQuery.result[j])

\* a call that returned two stops at equal distance, in array order, ahead of a
\* farther or excluded stop that precedes them in the array
C20_Witness ==
    /\ IsFindStopsNear
    /\ Len(lastQuery.result) >= 2
    /\ PlanarSq(lastQuery.result[1], lastQuery.lat, lastQuery.lng)
         = PlanarSq(lastQuery.result[2], lastQuery.lat, lastQuery.lng)
    /\ ArrayIndex(lastQuery.result[1]) >= 2
    /\ ArrayIndex(lastQuery.result[1]) < ArrayIndex(lastQuery.result[2])

(***************************************************************************)
(* C21: findStopsNear never returns more than maxResults stops, and what   *)
(* it returns is a prefix of the distance-sorted candidates: if a stop is  *)
(* returned, every eligible stop strictly closer to the query point is     *)
(* returned too.                                                           *)
(***************************************************************************)
C21_CappedPrefix ==
    IsFindStopsNear =>
        /\ Len(lastQuery.result) <= lastQuery.maxResult
        /\ \A i \in DOMAIN lastQuery.result, k \in DOMAIN stopsArray :
              ( /\ Eligible(stopsArray[k], lastQuery.operators)
                /\ PlanarSq(stopsArray[k], lastQuery.lat, lastQuery.lng)
                     < PlanarSq(lastQuery.result[i], lastQuery.lat, lastQuery.lng) )
              => stopsArray[k].id \in ResultIds

\* a call cut at maxResults: a stop is returned, a closer one with it, and an
\* eligible stop within the radius is left out
C21_Witness ==
    /\ IsFindStopsNear
    /\ Len(lastQuery.result) = lastQuery.maxResult
    /\ Len(lastQuery.result) >= 2
    /\ PlanarSq(lastQuery.result[1], lastQuery.lat, lastQuery.lng)
         < PlanarSq(lastQuery.result[2], lastQuery.lat, lastQuery.lng)
    /\ CountWithin(lastQuery.lat, lastQuery.lng, lastQuery.radius,
                   lastQuery.operators) > lastQuery.maxResult

(***************************************************************************)
(* C22: a stop entry lacking a position is silently skipped by every       *)
(* query: findStopsNear and findNearestStop never return it, no query      *)
(* throws because of it, and the spatial queries return what they return   *)
(* on the stop array without the entries lacking a position.               *)
(***************************************************************************)
\* the flattened stop array without the stops lacking a position
PositionedStops == SelectSeq(stopsArray, LAMBDA stop : IsSome(stop.location))

HasStopWithoutPosition == \E k \in DOMAIN stopsArray : ~IsSome(stopsArray[k].location)

C22_StopsWithoutPositionSkipped ==
    lastQuery.op # "none" /\ lastQuery.loaded /\ HasStopWithoutPosition =>
        /\ ~lastQuery.threw
        /\ IsFindStopsNear =>
              /\ \A i \in DOMAIN lastQuery.result : IsSome(lastQuery.result[i].location)
              /\ lastQuery.result =
                    FindStopsNear(data, PositionedStops, stopToOperators,
                                  lastQuery.lat, lastQuery.lng, lastQuery.radius,
                                  lastQuery.maxResult, lastQuery.minResult,
                                  lastQuery.operators)
        /\ IsFindNearestStop =>
              /\ IsSome(lastQuery.result) => IsSome(Val(lastQuery.result).location)
              /\ lastQuery.result =
                    FindNearestStop(data, PositionedStops, stopToOperators,
                                    lastQuery.lat, lastQuery.lng, lastQuery.radius,
                                    lastQuery.operators)

\* a findStopsNear call that returned a stop standing behind a stop without
\* position in the array
C22_Witness ==
    /\ IsFindStopsNear
    /\ \E i \in DOMAIN lastQuery.result, k \in DOMAIN stopsArray :
          /\ ~IsSome(stopsArray[k].location)
          /\ k < ArrayIndex(lastQuery.result[i])

(***************************************************************************)
(* C23: queries only read shared state: a call of findStopsNear,           *)
(* findNearestStop, getRoutesByStop or getStopsByRoute leaves the dataset, *)
(* the flattened stop array, stop->routes and stop->operators unchanged,   *)
(* so the same query repeated returns the same result.                     *)
(***************************************************************************)
\* a step in which a query is called and returns its result
QueryCalled == lastQuery = NoQuery /\ lastQuery' # NoQuery

\* the outcome of the recorded call when it is made again in the current state
Repeated ==
    CASE IsFindStopsNear ->
           Returned(FindStopsNear(data, stopsArray, stopToOperators, lastQuery.lat,
                                  lastQuery.lng, lastQuery.radius, lastQuery.maxResult,
                                  lastQuery.minResult, lastQuery.operators))
      [] IsFindNearestStop ->
           Returned(FindNearestStop(data, stopsArray, stopToOperators, lastQuery.lat,
                                    lastQuery.lng, lastQuery.radius,
                                    lastQuery.operators))
      [] IsGetRoutesByStop ->
           GetRoutesByStop(data, stopToRoutes, lastQuery.stopId, lastQuery.operators)
      [] IsGetStopsByRoute ->
           GetStopsByRoute(data, lastQuery.routeId, lastQuery.operators)

C23_QueriesReadOnly ==
    /\ [][QueryCalled => UNCHANGED engine]_vars
    /\ [](lastQuery.op # "none" =>
             /\ Repeated.threw = lastQuery.threw
             /\ Repeated.value = lastQuery.result)

\* a findStopsNear call has returned two stops in the reverse of their array order,
\* and the array is in the order of the stop table
C23_Witness ==
    /\ IsFindStopsNear
    /\ Len(lastQuery.result) >= 2
    /\ ArrayIndex(lastQuery.result[1]) > ArrayIndex(lastQuery.result[2])
    /\ stopsArray = DerivedStopsArray

(***************************************************************************)
(* C24: at most one load is ever in flight: under any interleaving of the  *)
(* callers that trigger loading while no dataset is loaded yet, a second   *)
(* load() is never started before the first one has settled.               *)
(***************************************************************************)
\* the callers awaiting a load() of theirs
LoadsInFlight == {c \in Callers : caller[c].at = "load"}

C24_AtMostOneLoadInFlight == Cardinality(LoadsInFlight) <= 1

(***************************************************************************)
(* C30: bus-stop markers are always tracked: every bus-stop marker         *)
(* attached to the map has its stop ID in visibleBusMarkers and its object *)
(* in markerCache, so no two attached markers are of the same stop.        *)
(***************************************************************************)
C30_MarkersTracked ==
    /\ \A i \in DOMAIN markers :
          markers[i].onMap =>
              /\ markers[i].stop \in visibleBusMarkers
              /\ markers[i].stop \in DOMAIN markerCache
              /\ markerCache[markers[i].stop] = i
    /\ \A i, j \in DOMAIN markers :
          markers[i].onMap /\ markers[j].onMap /\ i # j
              => markers[i].stop # markers[j].stop

(***************************************************************************)
(* C25: on the five-stop test dataset findStopsNear returns exactly:       *)
(* radius 60 -> [E,A,B]; radius 60, maxResults 2 -> [E,A]; radius 40,      *)
(* maxResults 10, minResults 3 -> [E,A,B]; radius 120, minResults 1,       *)
(* operators [kmb] -> [E,A,C]; radius 300, minResults 1, operators [nlb]   *)
(* -> [D]; radius 10, maxResults 10, minResults 3 -> [E,A].                *)
(***************************************************************************)
\* the call of findStopsNear from the centre with these arguments was made
TestCall(radius, maxResult, minResult, ops) ==
    /\ IsFindStopsNear
    /\ lastQuery.radius = radius
    /\ lastQuery.maxResult = maxResult
    /\ lastQuery.minResult = minResult
    /\ lastQuery.operators = ops

\* actual.map((s) => s.id)
ActualIds == [i \in DOMAIN lastQuery.result |-> lastQuery.result[i].id]

C25_TestDatasetResults ==
    /\ TestCall(60, 10, 2, OpsOmitted) => ActualIds = <<"E", "A", "B">>
    /\ TestCall(60, 2, 2, OpsOmitted) => ActualIds = <<"E", "A">>
    /\ TestCall(40, 10, 3, OpsOmitted) => ActualIds = <<"E", "A", "B">>
    /\ TestCall(120, 10, 1, OpsList(<<"kmb">>)) => ActualIds = <<"E", "A", "C">>
    /\ TestCall(300, 10, 1, OpsList(<<"nlb">>)) => ActualIds = <<"D">>
    /\ TestCall(10, 10, 3, OpsOmitted) => ActualIds = <<"E", "A">>

C25_Witness ==
    /\ TestCall(40, 10, 3, OpsOmitted)
    /\ ActualIds = <<"E", "A", "B">>

(***************************************************************************)
(* C26: the bounding-box pre-filter is a pure optimisation: in             *)
(* findStopsNear (box of 4 * radius) and in findNearestStop (box of        *)
(* radius) the box check never discards a stop whose planar distance is    *)
(* within the corresponding threshold, so each operation returns the same  *)
(* result as the same scan with the two box comparisons removed.           *)
(***************************************************************************)
\* the scan of findStopsNear without the two box comparisons
RECURSIVE ScanWithoutBox(_, _, _, _, _, _, _)
ScanWithoutBox(arr, s2o, i, lat, lng, maxRadius, ops) ==
    IF i > Len(arr) THEN <<>>
    ELSE LET stop == arr[i]
             rest == ScanWithoutBox(arr, s2o, i + 1, lat, lng, maxRadius, ops)
         IN IF ~IsSome(stop.location) THEN rest
            ELSE IF ~PassesOperatorFilter(s2o, stop.id, ops) THEN rest
            ELSE IF DistSq(Val(stop.location), lat, lng) <= RadiusSq(maxRadius)
                 THEN <<[stop |-> stop,
                         distSq |-> DistSq(Val(stop.location), lat, lng)]>> \o rest
                 ELSE rest

FindStopsNearWithoutBox(lat, lng, radius, maxResult, minResult, opsArg) ==
    IF ~IsSome(data) \/ Len(stopsArray) = 0 THEN <<>>
    ELSE StopsOf(SelectByExpansion(
                     SortByDist(ScanWithoutBox(stopsArray, stopToOperators, 1, lat,
                                               lng, radius * 4,
                                               ResolveOperators(opsArg))),
                     radius, maxResult, minResult))

\* the scan of findNearestStop without the two box comparisons
RECURSIVE NearestWithoutBox(_, _, _, _, _, _)
NearestWithoutBox(acc, i, lat, lng, rad, ops) ==
    IF i > Len(stopsArray) THEN acc
    ELSE LET stop == stopsArray[i]
             next ==
                 IF ~IsSome(stop.location) THEN acc
                 ELSE IF ~PassesOperatorFilter(stopToOperators, stop.id, ops) THEN acc
                 ELSE LET distSq == DistSq(Val(stop.location), lat, lng)
                      IN IF ~IsSome(acc.minDistSq) \/ distSq < Val(acc.minDistSq)
                         THEN [nearest |-> Some(stop), minDistSq |-> Some(distSq)]
                         ELSE acc
         IN NearestWithoutBox(next, i + 1, lat, lng, rad, ops)

FindNearestStopWithoutBox(lat, lng, rad, opsArg) ==
    IF ~IsSome(data) \/ Len(stopsArray) = 0 THEN None
    ELSE NearestWithoutBox([nearest |-> None,
                            minDistSq |-> IF IsSome(rad) THEN Some(RadiusSq(Val(rad)))
                                          ELSE None],
                           1, lat, lng, rad, ResolveOperators(opsArg)).nearest

\* the stop is discarded by one of the two box comparisons for the box radius
DiscardedByBox(stop, boxRadius) ==
    /\ IsSome(stop.location)
    /\ \/ OutsideLatBox(Val(stop.location), lastQuery.lat, boxRadius)
       \/ OutsideLngBox(Val(stop.location), lastQuery.lng, boxRadius)

\* the box radius of the recorded call: 4 * radius, or radius
BoxRadius == IF IsFindStopsNear THEN lastQuery.radius * 4 ELSE Val(lastQuery.radius)

RoutesWithoutStops ==
    {i \in DOMAIN RouteEntries :
        IsSome(RouteEntries[i][2]) /\ ~IsSome(Val(RouteEntries[i][2]).stops)}

\* the route table without the routes that have no stop data
RoutesWithStops == SelectSeq(RouteEntries, LAMBDA e : ~(IsSome(e[2]) /\ ~IsSome(Val(e[2]).stops)))

\* the stop IDs a route names that the stop table does not hold
DanglingIds == {id \in VisitedStopIds : ~InStopTable(id)}

\* the loaded dataset has a stop table and routes with a dangling stop ID, and no
\* route or company entry of it is null
DanglingDataset ==
    /\ IsSome(data)
    /\ IsSome(Val(data).stopList)
    /\ WellFormedRoutes
    /\ DanglingIds # {}

\* the last load() in a browser got a payload and ran its tail
TailRan ==
    /\ pc = "idle"
    /\ isBrowser
    /\ loadLog.cache = "hit" \/ loadLog.writes = 1

C27_SkippedAndIndexed ==
    pc = "idle" /\ loadResult = "data" =>
        /\ \A i \in RoutesWithoutStops :
              \A id \in DOMAIN stopToRoutes :
                  RouteEntries[i][1] \notin Range(stopToRoutes[id])
        /\ stopToRoutes = BuildIndex(Some(RoutesWithStops)).s2r
        /\ stopToOperators = BuildIndex(Some(RoutesWithStops)).s2o

C27_DanglingLoadSucceeds ==
    DanglingDataset =>
        /\ TailRan => loadResult = "data"
        /\ Install(data, stopsArray, stopToRoutes, stopToOperators).ok

C27_DanglingQueriesComplete ==
    QueryCalled /\ DanglingDataset =>
        /\ ~lastQuery'.threw
        /\ lastQuery'.op \in {"findStopsNear", "findNearestStop"} =>
              ReturnedStopIds' \cap DanglingIds = {}

C27_MalformedRoutesTolerated ==
    /\ [](C27_SkippedAndIndexed /\ C27_DanglingLoadSucceeds)
    /\ [][C27_DanglingQueriesComplete]_vars

\* after a successful load of a dataset with a route without stops and a dangling
\* ID, getStopsByRoute returned the stops of the route naming the dangling ID
C27_Witness ==
    /\ TailRan
    /\ loadResult = "data"
    /\ DanglingDataset
    /\ RoutesWithoutStops # {}
    /\ "X" \in DanglingIds
    /\ IsGetStopsByRoute
    /\ lastQuery.loaded
    /\ ~lastQuery.threw
    /\ "X" \in ReturnedStopIds
    /\ Repeated.value = lastQuery.result

(***************************************************************************)
(* C28: the two spatial queries agree on the closest stop: for every       *)
(* dataset, query point, finite radius r, operator list, maxResults >= 1   *)
(* and any minResults, whenever findNearestStop(lat, lng, r, operators)    *)
(* returns a stop s, findStopsNear(lat, lng, r, maxResults, minResults,    *)
(* operators) is non-empty and its first element is s (same stop, also     *)
(* among equidistant stops).                                               *)
(***************************************************************************)
\* findStopsNear with the point, radius and operators of the recorded call
StopsNearForRecorded(maxResult, minResult) ==
    FindStopsNear(data, stopsArray, stopToOperators, lastQuery.lat, lastQuery.lng,
                  Val(lastQuery.radius), maxResult, minResult, lastQuery.operators)

\* findNearestStop was called with a finite radius and returned a stop
NearestFound ==
    /\ IsFindNearestStop
    /\ IsSome(lastQuery.radius)
    /\ IsSome(lastQuery.result)

C28_NearestIsFirstOfStopsNear ==
    NearestFound =>
        \A maxResult \in 1..(MaxCount + 1), minResult \in 0..(MaxStops + 1) :
            LET stops == StopsNearForRecorded(maxResult, minResult)
            IN /\ stops # <<>>
               /\ stops[1] = Val(lastQuery.result)

\* the stop returned has another stop at its distance, later in the array
C28_Witness ==
    /\ NearestFound
    /\ \E k \in DOMAIN stopsArray :
          /\ k > ArrayIndex(Val(lastQuery.result))
          /\ IsSome(stopsArray[k].location)
          /\ PassesOperatorFilter(stopToOperators, stopsArray[k].id,
                                  ResolveOperators(lastQuery.operators))
          /\ DistSq(Val(stopsArray[k].location), lastQuery.lat, lastQuery.lng)
                = DistSq(Val(Val(lastQuery.result).location), lastQuery.lat,
                         lastQuery.lng)
    /\ Len(StopsNearForRecorded(MaxCount, 0)) >= 2

(***************************************************************************)
(* C29: load() never rejects or throws to its caller: every outcome is     *)
(* either the loaded dataset or null; an error while reading the cache is  *)
(* treated as a cache miss and falls through to the fetch/file path; a     *)
(* failed load is not retried inside load().                               *)
(***************************************************************************)
\* a call of load() has settled
LoadSettled == pc = "idle" /\ loadLog.cache # "unread"

\* every settled load resolved, with the installed dataset or with null, after at
\* most one fetch or file read
C29_ResolvesOnce ==
    /\ loadResult \in {"none", "data", "null"}
    /\ LoadSettled => loadResult \in {"data", "null"}
    /\ loadResult = "data" => IsSome(data)
    /\ loadLog.fetches + loadLog.reads <= 1

\* a step in which the cache read settles without a cached copy, which includes
\* the read that failed while the cache holds an entry
CacheMissStep == pc = "getCache" /\ loadLog'.cache = "miss"

\* a step in which load() returns null
LoadFails == pc # "idle" /\ loadResult' = "null"

C29_LoadNeverRejects ==
    /\ []C29_ResolvesOnce
    /\ [][CacheMissStep =>
             /\ pc' = IF isBrowser THEN "fetchJSON" ELSE "importFs"
             /\ loadResult' = "none"
             /\ UNCHANGED engine]_vars
    /\ [][LoadFails => pc' = "idle" /\ UNCHANGED loadLog.fetches]_vars

\* the cache held an entry, its read failed, the fetch was made and failed, and
\* load() returned null
C29_Witness ==
    /\ LoadSettled
    /\ IsSome(idb)
    /\ loadLog.cache = "miss"
    /\ loadLog.fetches = 1
    /\ loadLog.writes = 0
    /\ loadResult = "null"

====
